---- MODULE Spec2Model ----
(***************************************************************************)
(* Document classification and department routing of the document-        *)
(* management backend: DocumentClassifier (functions.py) and the upload    *)
(* pipeline around it (routes/document_routes.py).                         *)
(*                                                                         *)
(* Scores are Python floats that are small decimal numbers.  They are kept *)
(* here as exact integers in units of 1/Unit, Unit = 10 * 20^3, which      *)
(* holds every weight (tenths) and up to three suppressions by 0.35 = 7/20 *)
(* without loss.  Normalized scores are kept in hundredths.                *)
(***************************************************************************)
EXTENDS Integers, Sequences, FiniteSets, TLC

(* Bounds of the explored inputs. *)
MaxMatches == 2
MaxLines == 2

(* Python's None and a value that is not None: a variable that may hold   *)
(* None holds None or Some(v).                                             *)
None == <<>>

Some(v) == <<v>>

ValueOf(o) == o[1]

(***************************************************************************)
(* Strings.  A TLA+ string is atomic, so Spell writes every string of the  *)
(* model out as its sequence of characters; substring tests and lower()    *)
(* work on these sequences.                                                *)
(***************************************************************************)
Spell ==
       ("tender document" :> <<"t", "e", "n", "d", "e", "r", " ", "d", "o", "c", "u", "m", "e", "n", "t">>)
    @@ ("notice inviting tender" :> <<"n", "o", "t", "i", "c", "e", " ", "i", "n", "v", "i", "t", "i", "n", "g", " ", "t", "e", "n", "d", "e", "r">>)
    @@ ("form of tender" :> <<"f", "o", "r", "m", " ", "o", "f", " ", "t", "e", "n", "d", "e", "r">>)
    @@ ("bill of quantities" :> <<"b", "i", "l", "l", " ", "o", "f", " ", "q", "u", "a", "n", "t", "i", "t", "i", "e", "s">>)
    @@ ("tender security" :> <<"t", "e", "n", "d", "e", "r", " ", "s", "e", "c", "u", "r", "i", "t", "y">>)
    @@ ("tenderer" :> <<"t", "e", "n", "d", "e", "r", "e", "r">>)
    @@ ("earnest money" :> <<"e", "a", "r", "n", "e", "s", "t", " ", "m", "o", "n", "e", "y">>)
    @@ ("emd" :> <<"e", "m", "d">>)
    @@ ("bid" :> <<"b", "i", "d">>)
    @@ ("bidder" :> <<"b", "i", "d", "d", "e", "r">>)
    @@ ("purchase order" :> <<"p", "u", "r", "c", "h", "a", "s", "e", " ", "o", "r", "d", "e", "r">>)
    @@ ("contract no" :> <<"c", "o", "n", "t", "r", "a", "c", "t", " ", "n", "o">>)
    @@ ("evaluation of tender" :> <<"e", "v", "a", "l", "u", "a", "t", "i", "o", "n", " ", "o", "f", " ", "t", "e", "n", "d", "e", "r">>)
    @@ ("tender opening" :> <<"t", "e", "n", "d", "e", "r", " ", "o", "p", "e", "n", "i", "n", "g">>)
    @@ ("tender validity" :> <<"t", "e", "n", "d", "e", "r", " ", "v", "a", "l", "i", "d", "i", "t", "y">>)
    @@ ("petitioner" :> <<"p", "e", "t", "i", "t", "i", "o", "n", "e", "r">>)
    @@ ("respondent" :> <<"r", "e", "s", "p", "o", "n", "d", "e", "n", "t">>)
    @@ ("writ petition" :> <<"w", "r", "i", "t", " ", "p", "e", "t", "i", "t", "i", "o", "n">>)
    @@ ("tribunal order" :> <<"t", "r", "i", "b", "u", "n", "a", "l", " ", "o", "r", "d", "e", "r">>)
    @@ ("appeal" :> <<"a", "p", "p", "e", "a", "l">>)
    @@ ("arbitration clause" :> <<"a", "r", "b", "i", "t", "r", "a", "t", "i", "o", "n", " ", "c", "l", "a", "u", "s", "e">>)
    @@ ("tax reimbursement" :> <<"t", "a", "x", " ", "r", "e", "i", "m", "b", "u", "r", "s", "e", "m", "e", "n", "t">>)
    @@ ("tax return" :> <<"t", "a", "x", " ", "r", "e", "t", "u", "r", "n">>)
    @@ ("tax refund" :> <<"t", "a", "x", " ", "r", "e", "f", "u", "n", "d">>)
    @@ ("annual report" :> <<"a", "n", "n", "u", "a", "l", " ", "r", "e", "p", "o", "r", "t">>)
    @@ ("balance sheet" :> <<"b", "a", "l", "a", "n", "c", "e", " ", "s", "h", "e", "e", "t">>)
    @@ ("audited" :> <<"a", "u", "d", "i", "t", "e", "d">>)
    @@ ("invoice" :> <<"i", "n", "v", "o", "i", "c", "e">>)
    @@ ("profit and loss" :> <<"p", "r", "o", "f", "i", "t", " ", "a", "n", "d", " ", "l", "o", "s", "s">>)
    @@ ("p&l account" :> <<"p", "&", "l", " ", "a", "c", "c", "o", "u", "n", "t">>)
    @@ ("budget estimate" :> <<"b", "u", "d", "g", "e", "t", " ", "e", "s", "t", "i", "m", "a", "t", "e">>)
    @@ ("expenditure report" :> <<"e", "x", "p", "e", "n", "d", "i", "t", "u", "r", "e", " ", "r", "e", "p", "o", "r", "t">>)
    @@ ("eia" :> <<"e", "i", "a">>)
    @@ ("environmental impact" :> <<"e", "n", "v", "i", "r", "o", "n", "m", "e", "n", "t", "a", "l", " ", "i", "m", "p", "a", "c", "t">>)
    @@ ("environmental clearance" :> <<"e", "n", "v", "i", "r", "o", "n", "m", "e", "n", "t", "a", "l", " ", "c", "l", "e", "a", "r", "a", "n", "c", "e">>)
    @@ ("safety directive" :> <<"s", "a", "f", "e", "t", "y", " ", "d", "i", "r", "e", "c", "t", "i", "v", "e">>)
    @@ ("safety norms" :> <<"s", "a", "f", "e", "t", "y", " ", "n", "o", "r", "m", "s">>)
    @@ ("compliance order" :> <<"c", "o", "m", "p", "l", "i", "a", "n", "c", "e", " ", "o", "r", "d", "e", "r">>)
    @@ ("regulatory directive" :> <<"r", "e", "g", "u", "l", "a", "t", "o", "r", "y", " ", "d", "i", "r", "e", "c", "t", "i", "v", "e">>)
    @@ ("rolling stock" :> <<"r", "o", "l", "l", "i", "n", "g", " ", "s", "t", "o", "c", "k">>)
    @@ ("maximo" :> <<"m", "a", "x", "i", "m", "o">>)
    @@ ("technical specification" :> <<"t", "e", "c", "h", "n", "i", "c", "a", "l", " ", "s", "p", "e", "c", "i", "f", "i", "c", "a", "t", "i", "o", "n">>)
    @@ ("engineering report" :> <<"e", "n", "g", "i", "n", "e", "e", "r", "i", "n", "g", " ", "r", "e", "p", "o", "r", "t">>)
    @@ ("Notice Inviting Tender" :> <<"N", "o", "t", "i", "c", "e", " ", "I", "n", "v", "i", "t", "i", "n", "g", " ", "T", "e", "n", "d", "e", "r">>)
    @@ ("Contract No. 7" :> <<"C", "o", "n", "t", "r", "a", "c", "t", " ", "N", "o", ".", " ", "7">>)
    @@ ("Invoice" :> <<"I", "n", "v", "o", "i", "c", "e">>)
    @@ ("Tax Refund" :> <<"T", "a", "x", " ", "R", "e", "f", "u", "n", "d">>)
    @@ ("audited balance sheet" :> <<"a", "u", "d", "i", "t", "e", "d", " ", "b", "a", "l", "a", "n", "c", "e", " ", "s", "h", "e", "e", "t">>)
    @@ ("Appeal" :> <<"A", "p", "p", "e", "a", "l">>)
    @@ ("EIA" :> <<"E", "I", "A">>)
    @@ ("Rolling Stock" :> <<"R", "o", "l", "l", "i", "n", "g", " ", "S", "t", "o", "c", "k">>)
    @@ ("Tender No. 12/2024" :> <<"T", "e", "n", "d", "e", "r", " ", "N", "o", ".", " ", "1", "2", "/", "2", "0", "2", "4">>)
    @@ (" " :> <<" ">>)
    @@ ("Tender document: notice inviting tender, form of tender, bill of quantities, tender security by each tenderer, earnest money (EMD), bid, bidder, purchase order, contract no, evaluation of tender, tender opening, tender validity" :> <<"T", "e", "n", "d", "e", "r", " ", "d", "o", "c", "u", "m", "e", "n", "t", ":", " ", "n", "o", "t", "i", "c", "e", " ", "i", "n", "v", "i", "t", "i", "n", "g", " ", "t", "e", "n", "d", "e", "r", ",", " ", "f", "o", "r", "m", " ", "o", "f", " ", "t", "e", "n", "d", "e", "r", ",", " ", "b", "i", "l", "l", " ", "o", "f", " ", "q", "u", "a", "n", "t", "i", "t", "i", "e", "s", ",", " ", "t", "e", "n", "d", "e", "r", " ", "s", "e", "c", "u", "r", "i", "t", "y", " ", "b", "y", " ", "e", "a", "c", "h", " ", "t", "e", "n", "d", "e", "r", "e", "r", ",", " ", "e", "a", "r", "n", "e", "s", "t", " ", "m", "o", "n", "e", "y", " ", "(", "E", "M", "D", ")", ",", " ", "b", "i", "d", ",", " ", "b", "i", "d", "d", "e", "r", ",", " ", "p", "u", "r", "c", "h", "a", "s", "e", " ", "o", "r", "d", "e", "r", ",", " ", "c", "o", "n", "t", "r", "a", "c", "t", " ", "n", "o", ",", " ", "e", "v", "a", "l", "u", "a", "t", "i", "o", "n", " ", "o", "f", " ", "t", "e", "n", "d", "e", "r", ",", " ", "t", "e", "n", "d", "e", "r", " ", "o", "p", "e", "n", "i", "n", "g", ",", " ", "t", "e", "n", "d", "e", "r", " ", "v", "a", "l", "i", "d", "i", "t", "y">>)
    @@ ("Tax reimbursement, tax return and tax refund: invoice, annual report, audited balance sheet, profit and loss (P&L account), budget estimate, expenditure report" :> <<"T", "a", "x", " ", "r", "e", "i", "m", "b", "u", "r", "s", "e", "m", "e", "n", "t", ",", " ", "t", "a", "x", " ", "r", "e", "t", "u", "r", "n", " ", "a", "n", "d", " ", "t", "a", "x", " ", "r", "e", "f", "u", "n", "d", ":", " ", "i", "n", "v", "o", "i", "c", "e", ",", " ", "a", "n", "n", "u", "a", "l", " ", "r", "e", "p", "o", "r", "t", ",", " ", "a", "u", "d", "i", "t", "e", "d", " ", "b", "a", "l", "a", "n", "c", "e", " ", "s", "h", "e", "e", "t", ",", " ", "p", "r", "o", "f", "i", "t", " ", "a", "n", "d", " ", "l", "o", "s", "s", " ", "(", "P", "&", "L", " ", "a", "c", "c", "o", "u", "n", "t", ")", ",", " ", "b", "u", "d", "g", "e", "t", " ", "e", "s", "t", "i", "m", "a", "t", "e", ",", " ", "e", "x", "p", "e", "n", "d", "i", "t", "u", "r", "e", " ", "r", "e", "p", "o", "r", "t">>)
    @@ ("Bearer " :> <<"B", "e", "a", "r", "e", "r", " ">>)
    @@ ("Bearer" :> <<"B", "e", "a", "r", "e", "r">>)
    @@ ("bearer " :> <<"b", "e", "a", "r", "e", "r", " ">>)
    @@ ("InvalidFormat " :> <<"I", "n", "v", "a", "l", "i", "d", "F", "o", "r", "m", "a", "t", " ">>)
    @@ ("token123" :> <<"t", "o", "k", "e", "n", "1", "2", "3">>)
    @@ ("invalid.jwt.token" :> <<"i", "n", "v", "a", "l", "i", "d", ".", "j", "w", "t", ".", "t", "o", "k", "e", "n">>)
    @@ ("Authentication token is missing" :> <<"A", "u", "t", "h", "e", "n", "t", "i", "c", "a", "t", "i", "o", "n", " ", "t", "o", "k", "e", "n", " ", "i", "s", " ", "m", "i", "s", "s", "i", "n", "g">>)
    @@ ("Invalid or expired token" :> <<"I", "n", "v", "a", "l", "i", "d", " ", "o", "r", " ", "e", "x", "p", "i", "r", "e", "d", " ", "t", "o", "k", "e", "n">>)
    @@ ("Authorization header is missing" :> <<"A", "u", "t", "h", "o", "r", "i", "z", "a", "t", "i", "o", "n", " ", "h", "e", "a", "d", "e", "r", " ", "i", "s", " ", "m", "i", "s", "s", "i", "n", "g">>)
    @@ ("Invalid authorization header format" :> <<"I", "n", "v", "a", "l", "i", "d", " ", "a", "u", "t", "h", "o", "r", "i", "z", "a", "t", "i", "o", "n", " ", "h", "e", "a", "d", "e", "r", " ", "f", "o", "r", "m", "a", "t">>)

LowerOf ==
       ("A" :> "a") @@ ("B" :> "b") @@ ("C" :> "c") @@ ("D" :> "d") @@ ("E" :> "e") @@ ("F" :> "f")
    @@ ("G" :> "g") @@ ("H" :> "h") @@ ("I" :> "i") @@ ("J" :> "j") @@ ("K" :> "k") @@ ("L" :> "l")
    @@ ("M" :> "m") @@ ("N" :> "n") @@ ("O" :> "o") @@ ("P" :> "p") @@ ("Q" :> "q") @@ ("R" :> "r")
    @@ ("S" :> "s") @@ ("T" :> "t") @@ ("U" :> "u") @@ ("V" :> "v") @@ ("W" :> "w") @@ ("X" :> "x")
    @@ ("Y" :> "y") @@ ("Z" :> "z")

lower(cs) == [i \in 1..Len(cs) |-> IF cs[i] \in DOMAIN LowerOf THEN LowerOf[cs[i]] ELSE cs[i]]

(* a test that takes a phrase only where it is the whole string *)
IsWholeString(k, s) == k = s

(* k in s *)
IsSubstring(k, s) == \E i \in 0..(Len(s) - Len(k)) : \A j \in 1..Len(k) : s[i + j] = k[j]

Whitespace == {" "}

strip_is_empty(cs) == \A i \in 1..Len(cs) : cs[i] \in Whitespace

procurement_phrases ==
    << "tender document", "notice inviting tender", "form of tender",
       "bill of quantities", "tender security", "tenderer", "earnest money",
       "emd", "bid", "bidder", "purchase order", "contract no",
       "evaluation of tender", "tender opening", "tender validity" >>

strong_proc_phrases == << "notice inviting tender", "form of tender", "bill of quantities" >>

legal_phrases ==
    << "petitioner", "respondent", "writ petition", "tribunal order", "appeal", "arbitration clause" >>

tax_terms == << "tax reimbursement", "tax return", "tax refund" >>
financial_statement_terms == << "annual report", "balance sheet", "audited" >>
invoice_terms == << "invoice" >>
pnl_terms == << "profit and loss", "p&l account" >>
budget_terms == << "budget estimate", "expenditure report" >>
environmental_terms == << "eia", "environmental impact", "environmental clearance" >>
safety_terms == << "safety directive", "safety norms" >>
regulatory_terms == << "compliance order", "regulatory directive" >>
rolling_stock_terms == << "rolling stock", "maximo" >>
technical_terms == << "technical specification", "engineering report" >>

Range(s) == {s[i] : i \in 1..Len(s)}

Keywords ==
    Range(procurement_phrases) \cup Range(legal_phrases) \cup Range(tax_terms)
    \cup Range(financial_statement_terms) \cup Range(invoice_terms) \cup Range(pnl_terms)
    \cup Range(budget_terms) \cup Range(environmental_terms) \cup Range(safety_terms)
    \cup Range(regulatory_terms) \cup Range(rolling_stock_terms) \cup Range(technical_terms)

(* a line that writes out every phrase of procurement_phrases *)
TenderNotice ==
    "Tender document: notice inviting tender, form of tender, bill of quantities, tender security by each tenderer, earnest money (EMD), bid, bidder, purchase order, contract no, evaluation of tender, tender opening, tender validity"

(* a statement that writes out every Finance term of lines 341-354 *)
FinanceStatement ==
    "Tax reimbursement, tax return and tax refund: invoice, annual report, audited balance sheet, profit and loss (P&L account), budget estimate, expenditure report"

(* The lines a document text is made of.  A text is a set of lines joined  *)
(* by "\n"; no keyword contains "\n", so a keyword occurs in the text      *)
(* exactly when it occurs in one of its lines.                             *)
Lines ==
    { "Notice Inviting Tender", "bidder", "Contract No. 7", "Invoice", "Tax Refund",
      "budget estimate", "audited balance sheet", "writ petition", "Appeal", "EIA",
      "safety norms", "Rolling Stock", "technical specification", "Tender No. 12/2024", " ",
      TenderNotice, FinanceStatement }

Texts == {t \in SUBSET Lines : Cardinality(t) <= MaxLines}

(* kw in line.lower(), for every line and keyword (a constant table) *)
LineHits == [f \in Lines |-> {k \in Keywords : IsSubstring(Spell[k], lower(Spell[f]))}]

(* kw in text, text = (full_text or "").lower() *)
InText(kw, full_text) == \E f \in full_text : kw \in LineHits[f]

AnyInText(kws, full_text) == \E i \in 1..Len(kws) : InText(kws[i], full_text)

(* a count that takes a phrase once for every line it occurs in *)
CountPerLine(kws, full_text) ==
    Cardinality({pair \in (1..Len(kws)) \X full_text : kws[pair[1]] \in LineHits[pair[2]]})

(* sum(1 for kw in kws if kw in text) *)
CountInText(kws, full_text) == Cardinality({i \in 1..Len(kws) : InText(kws[i], full_text)})

(* not text.strip(): the text is empty or whitespace only *)
IsBlank(full_text) == \A f \in full_text : strip_is_empty(Spell[f])

(***************************************************************************)
(* DocumentClassifier.extract_metadata                                     *)
(***************************************************************************)
MatcherLabels ==
    << "RECRUITMENT_ADV_NO", "GRADE_PAY", "JOB_TITLE",
       "TENDER_ID", "PURCHASE_ORDER_NO", "CONTRACT_ID",
       "CASE_NO", "COURT_NAME", "LAW_SECTION" >>

(* What the matcher reports for a document: the labels of its matches, up  *)
(* to MaxMatches of them.  Matches of different labels land in different   *)
(* lists, so the sequences are listed in label order only.                 *)
MatchSeqs ==
    { [i \in 1..Len(ix) |-> MatcherLabels[ix[i]]] :
        ix \in { s \in UNION { [1..n -> 1..Len(MatcherLabels)] : n \in 0..MaxMatches } :
                   \A i \in 1..(Len(s) - 1) : s[i] <= s[i + 1] } }

(* A recruitment notice that cites court cases: one advertisement number,  *)
(* one grade pay and six job titles; five case numbers, two court names    *)
(* and one law section.                                                    *)
NearHalfMatches ==
    << "RECRUITMENT_ADV_NO", "GRADE_PAY",
       "JOB_TITLE", "JOB_TITLE", "JOB_TITLE", "JOB_TITLE", "JOB_TITLE", "JOB_TITLE",
       "CASE_NO", "CASE_NO", "CASE_NO", "CASE_NO", "CASE_NO",
       "COURT_NAME", "COURT_NAME", "LAW_SECTION" >>

(* A recruitment notice with one advertisement number and 37 job titles    *)
(* that cites five case numbers and three law sections.                    *)
ExactTieMatches ==
    <<"RECRUITMENT_ADV_NO">> \o [i \in 1..37 |-> "JOB_TITLE"]
        \o [i \in 1..5 |-> "CASE_NO"] \o [i \in 1..3 |-> "LAW_SECTION"]

(* the match lists classify_department is called with *)
DocumentMatches == MatchSeqs \cup {NearHalfMatches, ExactTieMatches}

EmptyMetadata ==
    [ general |-> [PERSON |-> <<>>, ORG |-> <<>>, DATE |-> <<>>, AMOUNT |-> <<>>, LOCATION |-> <<>>],
      HR |-> [EMPLOYEE_ID |-> <<>>, JOB_TITLE |-> <<>>, GRADE_PAY |-> <<>>, RECRUITMENT_ADV_NO |-> <<>>],
      Procurement |-> [TENDER_ID |-> <<>>, PURCHASE_ORDER_NO |-> <<>>, BIDDER_NAME |-> <<>>,
                       CONTRACT_ID |-> <<>>, ITEM_SERVICE |-> <<>>, DEADLINE |-> <<>>],
      Legal |-> [CASE_NO |-> <<>>, COURT_NAME |-> <<>>, LAW_SECTION |-> <<>>,
                 PARTY_NAME |-> <<>>, SOP_CLAUSE |-> <<>>] ]

(* for dept in metadata: if label in metadata[dept]: metadata[dept][label].append(span) *)
AppendSpan(md, label, span) ==
    [dept \in DOMAIN md |->
        IF label \in DOMAIN md[dept]
        THEN [md[dept] EXCEPT ![label] = Append(@, span)]
        ELSE md[dept]]

RECURSIVE CollectMatches(_, _, _)
CollectMatches(md, matches, i) ==
    IF i > Len(matches) THEN md
    ELSE CollectMatches(AppendSpan(md, matches[i], i), matches, i + 1)

(* a named entity of doc.ents: its label_ and its text *)
Ent(label, text) == [label_ |-> label, text |-> text]

(* the doc.ents of the documents: none, a person, and an organisation, a   *)
(* date and a place, whose label GPE is no key of metadata["general"]      *)
DocumentEnts ==
    { <<>>,
      <<Ent("PERSON", "Asha")>>,
      <<Ent("ORG", "KMRL"), Ent("DATE", "2024"), Ent("GPE", "Kochi")>> }

(* lines 270-272: for ent in doc.ents: if ent.label_ in                    *)
(* metadata["general"]: metadata["general"][ent.label_].append(ent.text)   *)
RECURSIVE CollectEnts(_, _, _)
CollectEnts(md, ents, i) ==
    IF i > Len(ents) THEN md
    ELSE CollectEnts(
             IF ents[i].label_ \in DOMAIN md.general
             THEN [md EXCEPT !.general[ents[i].label_] = Append(@, ents[i].text)]
             ELSE md,
             ents, i + 1)

(* lines 259-281; a span is recorded as the position of its match *)
extract_metadata(ents, matches) ==
    CollectMatches(CollectEnts(EmptyMetadata, ents, 1), matches, 1)

(* the metadata classify_department is called with: that of a document     *)
(* without named entities and any of the match lists, and that of a        *)
(* document with named entities and no match or a case number              *)
DocumentMetadata ==
    { extract_metadata(<<>>, matches) : matches \in DocumentMatches }
    \cup { extract_metadata(ents, matches) :
               ents \in DocumentEnts, matches \in {<<>>, <<"CASE_NO">>} }

(***************************************************************************)
(* Scores: raw = defaultdict(float), a dict that remembers the order in    *)
(* which its keys were inserted and inserts a key when it is read.         *)
(***************************************************************************)
Departments == {"HR", "Procurement", "Legal", "Finance", "Regulatory", "Engineering"}

Unit == 10 * 20 * 20 * 20

Tenths(n) == n * (Unit \div 10)

DominanceThreshold == Tenths(30)

StrongFlagBonus == Tenths(30)

(* a dict that starts with 0.0 for every department *)
NewRawAllDepartments ==
    [keys |-> <<"HR", "Procurement", "Legal", "Finance", "Regulatory", "Engineering">>,
     val |-> [d \in Departments |-> 0]]

(* raw = defaultdict(float) *)
NewRaw == [keys |-> <<>>, val |-> <<>>]

HasKey(raw, d) == d \in DOMAIN raw.val

(* raw[d] read: the value, 0.0 for a key that is not there *)
Get(raw, d) == IF HasKey(raw, d) THEN raw.val[d] ELSE 0

(* the dict after raw[d] was read: a missing key is inserted with 0.0 *)
Touch(raw, d) ==
    IF HasKey(raw, d) THEN raw
    ELSE [keys |-> Append(raw.keys, d), val |-> raw.val @@ (d :> 0)]

(* raw[d] += v *)
Add(raw, d, v) == [Touch(raw, d) EXCEPT !.val[d] = @ + v]

AddIf(cond, raw, d, v) == IF cond THEN Add(raw, d, v) ELSE raw

(* a suppression that multiplies by 3.5 *)
SuppressAmplified(x) == (x * 7) \div 2

(* raw[dept] *= 0.35 *)
Suppress(x) == (x * 7) \div 20

(* lines 288-310 *)
ScoreProcurement(raw, metadata, full_text) ==
    LET proc_matches == Len(metadata["Procurement"]["TENDER_ID"])
                        + Len(metadata["Procurement"]["PURCHASE_ORDER_NO"])
                        + Len(metadata["Procurement"]["CONTRACT_ID"])
        proc_kw_hits == CountInText(procurement_phrases, full_text)
        r1 == AddIf(proc_matches # 0, raw, "Procurement", proc_matches * Tenths(30))
        r2 == AddIf(proc_kw_hits # 0, r1, "Procurement", proc_kw_hits * Tenths(12))
    IN  AddIf(AnyInText(strong_proc_phrases, full_text), r2, "Procurement", Tenths(30))

(* lines 312-321 *)
ScoreHR(raw, metadata) ==
    LET r1 == AddIf(metadata["HR"]["RECRUITMENT_ADV_NO"] # <<>>, raw, "HR", Tenths(30))
        r2 == AddIf(metadata["HR"]["JOB_TITLE"] # <<>>, r1, "HR",
                    Len(metadata["HR"]["JOB_TITLE"]) * Tenths(10))
    IN  AddIf(metadata["HR"]["GRADE_PAY"] # <<>>, r2, "HR", Tenths(10))

(* lines 323-338 *)
ScoreLegal(raw, metadata, full_text) ==
    LET r1 == AddIf(metadata["Legal"]["CASE_NO"] # <<>>, raw, "Legal",
                    Len(metadata["Legal"]["CASE_NO"]) * Tenths(30))
        r2 == AddIf(metadata["Legal"]["COURT_NAME"] # <<>>, r1, "Legal",
                    Len(metadata["Legal"]["COURT_NAME"]) * Tenths(8))
        r3 == AddIf(metadata["Legal"]["LAW_SECTION"] # <<>>, r2, "Legal",
                    Len(metadata["Legal"]["LAW_SECTION"]) * Tenths(6))
        legal_phrase_hits == CountInText(legal_phrases, full_text)
    IN  AddIf(legal_phrase_hits # 0, r3, "Legal", legal_phrase_hits * Tenths(8))

(* Finance rules that add their weight once for every term in the text *)
ScoreFinanceCounting(raw, full_text) ==
    LET n1 == CountInText(tax_terms, full_text)
        n2 == CountInText(financial_statement_terms, full_text)
        n3 == CountInText(invoice_terms, full_text)
        n4 == CountInText(pnl_terms, full_text)
        n5 == CountInText(budget_terms, full_text)
        r1 == AddIf(n1 # 0, raw, "Finance", n1 * Tenths(30))
        r2 == AddIf(n2 # 0, r1, "Finance", n2 * Tenths(20))
        r3 == AddIf(n3 # 0, r2, "Finance", n3 * Tenths(15))
        r4 == AddIf(n4 # 0, r3, "Finance", n4 * Tenths(20))
    IN  AddIf(n5 # 0, r4, "Finance", n5 * Tenths(15))

(* lines 340-355 *)
ScoreFinance(raw, full_text) ==
    LET r1 == AddIf(AnyInText(tax_terms, full_text), raw, "Finance", Tenths(30))
        r2 == AddIf(AnyInText(financial_statement_terms, full_text), r1, "Finance", Tenths(20))
        r3 == AddIf(AnyInText(invoice_terms, full_text), r2, "Finance", Tenths(15))
        r4 == AddIf(AnyInText(pnl_terms, full_text), r3, "Finance", Tenths(20))
    IN  AddIf(AnyInText(budget_terms, full_text), r4, "Finance", Tenths(15))

(* lines 357-366 *)
ScoreRegulatory(raw, full_text) ==
    LET r1 == AddIf(AnyInText(environmental_terms, full_text), raw, "Regulatory", Tenths(30))
        r2 == AddIf(AnyInText(safety_terms, full_text), r1, "Regulatory", Tenths(15))
    IN  AddIf(AnyInText(regulatory_terms, full_text), r2, "Regulatory", Tenths(20))

(* lines 368-374 *)
ScoreEngineering(raw, full_text) ==
    LET r1 == AddIf(AnyInText(rolling_stock_terms, full_text), raw, "Engineering", Tenths(30))
    IN  AddIf(AnyInText(technical_terms, full_text), r1, "Engineering", Tenths(15))

(* lines 285-374: the rules, in the order of the code *)
ScoreRules(metadata, full_text) ==
    ScoreEngineering(
      ScoreRegulatory(
        ScoreFinance(
          ScoreLegal(
            ScoreHR(
              ScoreProcurement(NewRaw, metadata, full_text),
              metadata),
            metadata, full_text),
          full_text),
        full_text),
      full_text)

(* a loop that multiplies every other department by 0.35, whatever its score *)
RECURSIVE SuppressOthersAll(_, _, _)
SuppressOthersAll(raw, others, i) ==
    IF i > Len(others) THEN raw
    ELSE LET t == Touch(raw, others[i])
         IN  SuppressOthersAll([t EXCEPT !.val[others[i]] = Suppress(@)], others, i + 1)

(* for dept in others: if raw[dept] < 3.0: raw[dept] *= 0.35 *)
RECURSIVE SuppressOthers(_, _, _)
SuppressOthers(raw, others, i) ==
    IF i > Len(others) THEN raw
    ELSE LET t == Touch(raw, others[i])
         IN  SuppressOthers(
               IF t.val[others[i]] < DominanceThreshold
               THEN [t EXCEPT !.val[others[i]] = Suppress(@)]
               ELSE t,
               others, i + 1)

(* a pass that adds the strong flag and suppresses nothing *)
DominancePassBoostOnly(raw, dom, others) ==
    LET t == Touch(raw, dom)
    IN  IF t.val[dom] >= DominanceThreshold THEN Add(t, dom, StrongFlagBonus) ELSE t

(* if raw[dom] >= 3.0: raw[dom] += 3.0; suppress the others *)
DominancePass(raw, dom, others) ==
    LET t == Touch(raw, dom)
    IN  IF t.val[dom] >= DominanceThreshold
        THEN SuppressOthers(Add(t, dom, StrongFlagBonus), others, 1)
        ELSE t

(* lines 377-383: the Procurement block *)
ProcurementPass(raw) ==
    DominancePass(raw, "Procurement", <<"Legal", "Finance", "Regulatory", "Engineering", "HR">>)

(* lines 385-391: the Finance block *)
FinancePass(raw) ==
    DominancePass(raw, "Finance", <<"Legal", "Procurement", "Regulatory", "Engineering", "HR">>)

(* a Legal block whose test never succeeds *)
LegalPassNever(raw) == Touch(raw, "Legal")

(* lines 393-399: the Legal block *)
LegalPass(raw) ==
    DominancePass(raw, "Legal", <<"Finance", "Procurement", "Regulatory", "Engineering", "HR">>)

RECURSIVE MaxOver(_, _)
MaxOver(f, S) ==
    IF S = {} THEN 0
    ELSE LET d == CHOOSE x \in S : TRUE
             m == MaxOver(f, S \ {d})
         IN  IF f[d] > m THEN f[d] ELSE m

RECURSIVE SumOver(_, _)
SumOver(f, S) ==
    IF S = {} THEN 0
    ELSE LET d == CHOOSE x \in S : TRUE IN f[d] + SumOver(f, S \ {d})

(* a normalization by the sum of the scores *)
SumRaw(raw) == IF raw.keys # <<>> THEN SumOver(raw.val, DOMAIN raw.val) ELSE Unit

(* max_raw = max(raw.values()) if raw else 1.0 *)
MaxRaw(raw) == IF raw.keys # <<>> THEN MaxOver(raw.val, DOMAIN raw.val) ELSE Unit

(* The departments whose val / max_raw lies exactly halfway between two    *)
(* hundredths.  There the float quotient carries a binary representation   *)
(* error of either sign, and round() goes the way of that error.           *)
Ties(raw) ==
    LET m == MaxRaw(raw)
    IN  {d \in DOMAIN raw.val : m > 0 /\ 2 * ((raw.val[d] * 100) % m) = m}

(* round(val / max_raw, 2), in hundredths; up decides an exact tie *)
Round2(val, max_raw, up) ==
    LET n == val * 100
        q == n \div max_raw
        r == 2 * (n % max_raw)
    IN  IF r > max_raw \/ (r = max_raw /\ up) THEN q + 1 ELSE q

(* normalized = {dept: round(val / max_raw, 2) for dept, val in raw.items()} *)
Normalized(raw, ups) ==
    [d \in DOMAIN raw.val |-> Round2(raw.val[d], MaxRaw(raw), d \in ups)]

PredictionThreshold == 50

(* a threshold of 0.0 *)
AboveThresholdAll(score) == score >= 0

(* a threshold with the comparison turned round *)
BelowThreshold(score) == score < PredictionThreshold

(* a threshold that leaves out 0.5 itself *)
AboveThresholdStrict(score) == score > PredictionThreshold

(* score >= 0.5 *)
AboveThreshold(score) == score >= PredictionThreshold

(* a list that stops at the first department at or above the threshold *)
PredictedFirstOnly(raw, normalized) ==
    LET Test(d) == AboveThreshold(normalized[d])
        all == SelectSeq(raw.keys, Test)
    IN  IF all = <<>> THEN <<>> ELSE <<all[1]>>

(* a list chosen by the quotient itself, before it is rounded *)
PredictedUnrounded(raw, normalized) ==
    LET Test(d) == 2 * raw.val[d] >= MaxRaw(raw)
    IN  SelectSeq(raw.keys, Test)

(* [dept for dept, score in normalized.items() if score >= 0.5] *)
Predicted(raw, normalized) ==
    LET Test(d) == AboveThreshold(normalized[d])
    IN  SelectSeq(raw.keys, Test)

(* val / max_raw raises ZeroDivisionError when max_raw is 0.0 *)
DivisionRaises(raw) == raw.keys # <<>> /\ MaxRaw(raw) = 0

(***************************************************************************)
(* Documents handed to the upload pipeline: the text of the pages of the   *)
(* PDF, the named entities the pipeline finds in it and what the matcher   *)
(* finds in it.  Neither finds anything in a text without a token.         *)
(***************************************************************************)
MaxPages == 1
MaxPdfMatches == 1

(* model loads after which the process is called no more *)
MaxLoads == 2

PdfLines ==
    { "Notice Inviting Tender", "Invoice", "Tax Refund", "writ petition",
      "Tender No. 12/2024", " " }

PdfTexts == {t \in SUBSET PdfLines : Cardinality(t) <= MaxPages}

Pdfs ==
    { p \in { [pages |-> t, ents |-> e, matches |-> m] :
                  t \in PdfTexts, e \in DocumentEnts,
                  m \in {s \in MatchSeqs : Len(s) <= MaxPdfMatches} } :
          IsBlank(p.pages) => (p.ents = <<>> /\ p.matches = <<>>) }

RECURSIVE SumLen(_)
SumLen(S) ==
    IF S = {} THEN 0
    ELSE LET f == CHOOSE x \in S : TRUE IN Len(Spell[f]) + 1 + SumLen(S \ {f})

(* len(text), text += page_text + "\n" for every page *)
TextLen(t) == SumLen(t)

(* the classes of the exceptions the stages raise; all derive from Exception *)
ExceptionClasses ==
    {"HTTPError", "OSError", "PDFSyntaxError", "ValueError", "ZeroDivisionError"}

(* except Exception as e *)
IsIOError(e) == e \in {"HTTPError", "OSError"}
IsException(e) == e \in ExceptionClasses

(***************************************************************************)
(* State                                                                   *)
(***************************************************************************)
VARIABLES
    metadata,      \* classify_department's metadata argument
    full_text,     \* classify_department's full_text argument (a set of lines)
    kpc,           \* position inside classify_department
    rawRules,      \* raw when the dominance pass starts (line 376)
    raw,           \* the raw dict of the call
    normalized,    \* the normalized dict, assigned at line 403
    predicted,     \* the returned list, assigned at line 406
    cpc,           \* position inside classify_and_summarize_document
    is_existing,   \* its is_existing argument
    source,        \* pdf_path_or_url is a "path" or a "url"
    pdf,           \* the document behind pdf_path_or_url
    temp_pdf_path, \* a temporary file holds the download
    classifier_loads, \* how often DocumentClassifier() loaded the model
    exc,           \* the exception a stage raised, None if none did
    extracted_text,
    summary,
    classification_results,
    upc,           \* position inside upload_document
    request,       \* the upload request
    bucket,        \* objects in documents_bucket
    documents,     \* content_hash of the rows of the documents table
    now,           \* int(time.time())
    insert_attempts, \* inserts into documents tried by this upload
    unique_content_hash, \* the local of line 299, None before it
    doc_id,
    document_summaries, \* rows of document_summaries
    document_departments, \* rows of document_departments
    response,      \* what upload_document answered
    apc,           \* position inside the decorated function of the middleware
    decorator,     \* "jwt_required" or "jwt_optional"
    auth_header,   \* request.headers.get('Authorization')
    auth_cookie,   \* request.cookies.get('auth_token')
    utcnow,        \* the time of the request, in hours
    token,         \* the token local of the decorated function
    current_user,  \* request.current_user, None while the attribute is not set
    handler_calls, \* how often the wrapped handler f was called
    auth_response, \* what the route answered
    classifier,    \* the DocumentClassifier of the call: which load of the model it holds
    spc,           \* where the client's session stands: "start", "logged_in", "logged_out"
    cookie_jar,    \* the auth_token cookie the client's browser holds
    session_token, \* the token login issued, as the client may have kept it
    uploads,       \* concurrent uploads of one content: each one's position and outcome
    translations   \* concurrent requests to translate_document

classifierVars == <<metadata, full_text, kpc, rawRules, raw, normalized, predicted>>

orchestratorVars ==
    <<cpc, is_existing, source, pdf, temp_pdf_path, classifier_loads, classifier, exc,
      extracted_text, summary, classification_results>>

uploadVars ==
    <<upc, request, bucket, documents, now, insert_attempts, unique_content_hash, doc_id,
      document_summaries, document_departments, response>>

authVars ==
    <<apc, decorator, auth_header, auth_cookie, utcnow, token, current_user,
      handler_calls, auth_response>>

sessionVars == <<spc, cookie_jar, session_token>>

concurrentVars == <<uploads, translations>>

vars == <<classifierVars, orchestratorVars, uploadVars, authVars, sessionVars, concurrentVars>>

(***************************************************************************)
(* DocumentClassifier.classify_department                                  *)
(***************************************************************************)
ClassifierIdle ==
    /\ kpc = "idle"
    /\ metadata = EmptyMetadata
    /\ full_text = {}
    /\ rawRules = NewRaw
    /\ raw = NewRaw
    /\ normalized = <<>>
    /\ predicted = <<>>

(* lines 284-374 *)
ApplyRules ==
    /\ kpc = "called"
    /\ raw' = ScoreRules(metadata, full_text)
    /\ rawRules' = raw'
    /\ kpc' = "scored"
    /\ UNCHANGED <<metadata, full_text, normalized, predicted, orchestratorVars, uploadVars, authVars, sessionVars, concurrentVars>>

(* lines 377-383 *)
ApplyProcurementPass ==
    /\ kpc = "scored"
    /\ raw' = ProcurementPass(raw)
    /\ kpc' = "procurement_pass_done"
    /\ UNCHANGED <<metadata, full_text, rawRules, normalized, predicted, orchestratorVars, uploadVars, authVars, sessionVars, concurrentVars>>

(* lines 385-391 *)
ApplyFinancePass ==
    /\ kpc = "procurement_pass_done"
    /\ raw' = FinancePass(raw)
    /\ kpc' = "finance_pass_done"
    /\ UNCHANGED <<metadata, full_text, rawRules, normalized, predicted, orchestratorVars, uploadVars, authVars, sessionVars, concurrentVars>>

(* lines 393-399 *)
ApplyLegalPass ==
    /\ kpc = "finance_pass_done"
    /\ raw' = LegalPass(raw)
    /\ kpc' = "dominated"
    /\ UNCHANGED <<metadata, full_text, rawRules, normalized, predicted, orchestratorVars, uploadVars, authVars, sessionVars, concurrentVars>>

(* lines 376-399: Procurement, then Finance, then Legal *)
ApplyDominance == ApplyProcurementPass \/ ApplyFinancePass \/ ApplyLegalPass

(* lines 401-418 *)
NormalizeAndReturn ==
    /\ kpc = "dominated"
    /\ IF DivisionRaises(raw)
       THEN /\ kpc' = "ZeroDivisionError"
            /\ UNCHANGED <<normalized, predicted>>
       ELSE /\ \E ups \in SUBSET Ties(raw) : normalized' = Normalized(raw, ups)
            /\ predicted' = Predicted(raw, normalized')
            /\ kpc' = "returned"
    /\ UNCHANGED <<metadata, full_text, rawRules, raw, orchestratorVars, uploadVars, authVars, sessionVars, concurrentVars>>

ClassifyDepartment == ApplyRules \/ ApplyDominance \/ NormalizeAndReturn

(***************************************************************************)
(* classify_and_summarize_document (routes/document_routes.py)             *)
(***************************************************************************)
OrchestratorIdle ==
    /\ cpc = "idle"
    /\ is_existing = FALSE
    /\ source = "path"
    /\ pdf = [pages |-> {}, ents |-> <<>>, matches |-> <<>>]
    /\ temp_pdf_path = None
    /\ classifier_loads = 0
    /\ classifier = None
    /\ exc = None
    /\ extracted_text = None
    /\ summary = None
    /\ classification_results = None

(* an exception of class e raised in a stage of the try block, lines 87-142 *)
Raise(e, stage) ==
    /\ exc' = Some([class |-> e, stage |-> stage])
    /\ cpc' = "except"

(* lines 89-101, the download of an existing document *)
Download ==
    /\ cpc = "start"
    /\ is_existing /\ source = "url"
    /\ \/ /\ temp_pdf_path' = Some("tmp.pdf")
          /\ cpc' = "construct"
          /\ UNCHANGED exc
       \/ /\ Raise("HTTPError", "download")
          /\ UNCHANGED temp_pdf_path
    /\ UNCHANGED <<is_existing, source, pdf, classifier_loads, classifier, extracted_text, summary,
                   classification_results, classifierVars, uploadVars, authVars, sessionVars, concurrentVars>>

(* lines 99-101 *)
UsePath ==
    /\ cpc = "start"
    /\ ~(is_existing /\ source = "url")
    /\ cpc' = "construct"
    /\ UNCHANGED <<is_existing, source, pdf, temp_pdf_path, classifier_loads, classifier, exc,
                   extracted_text, summary, classification_results, classifierVars, uploadVars, authVars, sessionVars, concurrentVars>>

(* a constructor that loads the model on the first call only and hands the *)
(* loaded instance to every later call                                     *)
ConstructClassifierOnce ==
    /\ cpc = "construct"
    /\ \/ /\ classifier_loads' = IF classifier_loads = 0 THEN 1 ELSE classifier_loads
          /\ classifier' = Some(1)
          /\ cpc' = "extract_text"
          /\ UNCHANGED exc
       \/ /\ classifier_loads = 0
          /\ Raise("OSError", "classifier construction")
          /\ UNCHANGED <<classifier_loads, classifier>>
    /\ UNCHANGED <<is_existing, source, pdf, temp_pdf_path, extracted_text, summary,
                   classification_results, classifierVars, uploadVars, authVars, sessionVars, concurrentVars>>

(* line 104, DocumentClassifier.__init__: spacy.load *)
ConstructClassifier ==
    /\ cpc = "construct"
    /\ \/ /\ classifier_loads' = classifier_loads + 1
          /\ classifier' = Some(classifier_loads + 1)
          /\ cpc' = "extract_text"
          /\ UNCHANGED exc
       \/ /\ Raise("OSError", "classifier construction")
          /\ UNCHANGED <<classifier_loads, classifier>>
    /\ UNCHANGED <<is_existing, source, pdf, temp_pdf_path, extracted_text, summary,
                   classification_results, classifierVars, uploadVars, authVars, sessionVars, concurrentVars>>

(* the file behind actual_pdf_path can be opened *)
Readable == source = "path" \/ temp_pdf_path # None

(* process_pdf, line 430: extract_text_from_pdf *)
ProcessPdfExtractText ==
    /\ cpc = "extract_text"
    /\ \/ /\ Readable
          /\ full_text' = pdf.pages
          /\ cpc' = "extract_metadata"
          /\ UNCHANGED exc
       \/ /\ Raise(IF Readable THEN "PDFSyntaxError" ELSE "OSError", "text extraction")
          /\ UNCHANGED full_text
    /\ UNCHANGED <<metadata, kpc, rawRules, raw, normalized, predicted>>
    /\ UNCHANGED <<is_existing, source, pdf, temp_pdf_path, classifier_loads, classifier, extracted_text,
                   summary, classification_results, uploadVars, authVars, sessionVars, concurrentVars>>

(* process_pdf, line 431: extract_metadata *)
ProcessPdfExtractMetadata ==
    /\ cpc = "extract_metadata"
    /\ \/ /\ metadata' = extract_metadata(pdf.ents, pdf.matches)
          /\ kpc' = "called"
          /\ cpc' = "classify"
          /\ UNCHANGED exc
       \/ /\ Raise("ValueError", "entity extraction")
          /\ UNCHANGED <<metadata, kpc>>
    /\ UNCHANGED <<full_text, rawRules, raw, normalized, predicted>>
    /\ UNCHANGED <<is_existing, source, pdf, temp_pdf_path, classifier_loads, classifier, extracted_text,
                   summary, classification_results, uploadVars, authVars, sessionVars, concurrentVars>>

(* process_pdf, lines 432-433: classify_department returned or raised *)
ProcessPdfReturn ==
    /\ cpc = "classify"
    /\ \/ /\ kpc = "returned"
          /\ cpc' = "extract_again"
          /\ UNCHANGED exc
       \/ /\ kpc = "ZeroDivisionError"
          /\ Raise("ZeroDivisionError", "scoring")
    /\ UNCHANGED <<is_existing, source, pdf, temp_pdf_path, classifier_loads, classifier, extracted_text,
                   summary, classification_results, classifierVars, uploadVars, authVars, sessionVars, concurrentVars>>

(* line 106 *)
ExtractTextAgain ==
    /\ cpc = "extract_again"
    /\ \/ /\ extracted_text' = Some(pdf.pages)
          /\ cpc' = "summarize"
          /\ UNCHANGED exc
       \/ /\ Raise("PDFSyntaxError", "text extraction")
          /\ UNCHANGED extracted_text
    /\ UNCHANGED <<is_existing, source, pdf, temp_pdf_path, classifier_loads, classifier, summary,
                   classification_results, classifierVars, uploadVars, authVars, sessionVars, concurrentVars>>

(* lines 111-120: summarizer(extracted_text) returns a text or an empty    *)
(* text, or raises                                                         *)
SummarizerOutcomes ==
    { <<"summary text">>, <<"Summary generation returned empty result">>,
      <<"Summary generation failed: ", "APIError">> }

(* lines 109-142 *)
Summarize ==
    /\ cpc = "summarize"
    /\ IF ValueOf(extracted_text) # {} /\ ~IsBlank(ValueOf(extracted_text))
       THEN \E s \in SummarizerOutcomes : summary' = Some(s)
       ELSE summary' = Some(<<"No text content available for summarization">>)
    /\ classification_results' =
         Some([ metadata |-> Some(metadata),
                predicted_departments |-> Some(predicted),
                extracted_text_length |->
                    IF ValueOf(extracted_text) # {} THEN TextLen(ValueOf(extracted_text)) ELSE 0,
                summary |-> summary' ])
    /\ cpc' = "finally"
    /\ UNCHANGED <<is_existing, source, pdf, temp_pdf_path, classifier_loads, classifier, exc,
                   extracted_text, classifierVars, uploadVars, authVars, sessionVars, concurrentVars>>

(* lines 144-159 *)
ExceptBlock ==
    /\ cpc = "except"
    /\ IF IsException(ValueOf(exc).class)
       THEN /\ classification_results' =
                 Some([ error |-> <<"Processing failed: ", ValueOf(exc).class>>,
                        metadata |-> None,
                        predicted_departments |-> None,
                        extracted_text_length |-> 0,
                        summary |-> Some(<<"Processing failed: ", ValueOf(exc).class>>) ])
            /\ cpc' = "finally"
       ELSE /\ UNCHANGED classification_results
            /\ cpc' = "unwinding"
    /\ UNCHANGED <<is_existing, source, pdf, temp_pdf_path, classifier_loads, classifier, exc,
                   extracted_text, summary, classifierVars, uploadVars, authVars, sessionVars, concurrentVars>>

(* lines 160-165: the temporary file is removed, then the call returns or  *)
(* the exception that was not caught leaves it                             *)
Finally ==
    /\ cpc \in {"finally", "unwinding"}
    /\ temp_pdf_path' = None
    /\ cpc' = IF cpc = "finally" THEN "returned" ELSE "propagated"
    /\ UNCHANGED <<is_existing, source, pdf, classifier_loads, classifier, exc, extracted_text, summary,
                   classification_results, classifierVars, uploadVars, authVars, sessionVars, concurrentVars>>

(* the documents of the later calls: one page at most, no entities, no matches *)
LaterPdfs ==
    {[pages |-> t, ents |-> <<>>, matches |-> <<>>] : t \in {u \in SUBSET PdfLines : Cardinality(u) <= 1}}

(* line 78: the process calls classify_and_summarize_document again, on    *)
(* another document; the locals of the call and of classify_department     *)
(* start afresh, what the process has loaded so far stays                  *)
CallAgain ==
    /\ cpc \in {"returned", "propagated"}
    /\ upc = "idle"
    /\ classifier_loads < MaxLoads
    /\ cpc' = "start"
    /\ is_existing' \in BOOLEAN
    /\ source' \in {"path", "url"}
    /\ pdf' \in LaterPdfs
    /\ temp_pdf_path' = None
    /\ classifier' = None
    /\ exc' = None
    /\ extracted_text' = None
    /\ summary' = None
    /\ classification_results' = None
    /\ kpc' = "idle"
    /\ metadata' = EmptyMetadata
    /\ full_text' = {}
    /\ rawRules' = NewRaw
    /\ raw' = NewRaw
    /\ normalized' = <<>>
    /\ predicted' = <<>>
    /\ UNCHANGED <<classifier_loads, uploadVars, authVars, sessionVars, concurrentVars>>

ClassifyAndSummarize ==
    \/ UsePath
    \/ ConstructClassifier
    \/ ProcessPdfExtractText
    \/ ProcessPdfExtractMetadata
    \/ ProcessPdfReturn
    \/ ExtractTextAgain
    \/ Summarize
    \/ ExceptBlock
    \/ Finally

(***************************************************************************)
(* upload_document (routes/document_routes.py)                             *)
(***************************************************************************)
UploadIdle ==
    /\ upc = "idle"
    /\ request = [has_file |-> FALSE, has_title_and_uploader |-> FALSE]
    /\ bucket = {}
    /\ documents = {}
    /\ now = 0
    /\ insert_attempts = 0
    /\ unique_content_hash = None
    /\ doc_id = None
    /\ document_summaries = {}
    /\ document_departments = {}
    /\ response = None

Requests ==
    { [has_file |-> f, has_title_and_uploader |-> t] : f \in BOOLEAN, t \in BOOLEAN }

storage_name == "uuid_title.pdf"

(* calculate_file_hash of the processed file *)
calculate_file_hash(file) == [sha256 |-> file, suffix |-> <<>>]

(* f"{content_hash}_{int(time.time())}" *)
suffixed_content_hash(file, t) == [sha256 |-> file, suffix |-> <<t>>]

Respond(status, body) ==
    /\ response' = Some([status |-> status, body |-> body])
    /\ upc' = "done"

(* lines 226-237 *)
ValidateRequest ==
    /\ upc = "received"
    /\ IF ~request.has_file
       THEN Respond(400, "No file provided")
       ELSE IF ~request.has_title_and_uploader
            THEN Respond(400, "uploaded_by and title are required")
            ELSE upc' = "process_file" /\ UNCHANGED response
    /\ UNCHANGED <<request, bucket, documents, now, insert_attempts, unique_content_hash, doc_id,
                   document_summaries, document_departments, classifierVars, orchestratorVars, authVars, sessionVars, concurrentVars>>

(* lines 239-253: process_uploaded_file *)
ProcessUploadedFile ==
    /\ upc = "process_file"
    /\ \/ /\ upc' = "storage"
          /\ UNCHANGED response
       \/ Respond(500, "File processing failed")
    /\ UNCHANGED <<request, bucket, documents, now, insert_attempts, unique_content_hash, doc_id,
                   document_summaries, document_departments, classifierVars, orchestratorVars, authVars, sessionVars, concurrentVars>>

(* lines 255-263 *)
StorageUpload ==
    /\ upc = "storage"
    /\ \/ /\ bucket' = bucket \cup {storage_name}
          /\ upc' = "classify"
          /\ UNCHANGED response
       \/ /\ Respond(500, "Storage upload failed")
          /\ UNCHANGED bucket
    /\ UNCHANGED <<request, documents, now, insert_attempts, unique_content_hash, doc_id,
                   document_summaries, document_departments, classifierVars, orchestratorVars, authVars, sessionVars, concurrentVars>>

(* line 266: the call of classify_and_summarize_document *)
CallClassifyAndSummarize ==
    /\ upc = "classify"
    /\ cpc = "idle"
    /\ cpc' = "start"
    /\ is_existing' = FALSE
    /\ source' = "path"
    /\ upc' = "classifying"
    /\ UNCHANGED <<pdf, temp_pdf_path, classifier_loads, classifier, exc, extracted_text, summary,
                   classification_results, classifierVars>>
    /\ UNCHANGED <<request, bucket, documents, now, insert_attempts, unique_content_hash, doc_id,
                   document_summaries, document_departments, response, authVars, sessionVars, concurrentVars>>

(* an upload that gives up when the classification reports an error *)
ClassifyAndSummarizeDoneOrAbort ==
    /\ upc = "classifying"
    /\ cpc \in {"returned", "propagated"}
    /\ IF cpc = "returned" /\ "error" \notin DOMAIN ValueOf(classification_results)
       THEN upc' = "insert" /\ UNCHANGED response
       ELSE Respond(500, "Classification failed")
    /\ UNCHANGED <<request, bucket, documents, now, insert_attempts, unique_content_hash, doc_id,
                   document_summaries, document_departments, classifierVars, orchestratorVars, authVars, sessionVars, concurrentVars>>

(* lines 266-271: the call returned; an exception leaving it ends the      *)
(* request with the framework's 500                                        *)
ClassifyAndSummarizeDone ==
    /\ upc = "classifying"
    /\ cpc \in {"returned", "propagated"}
    /\ IF cpc = "returned"
       THEN upc' = "insert" /\ UNCHANGED response
       ELSE Respond(500, "Internal Server Error")
    /\ UNCHANGED <<request, bucket, documents, now, insert_attempts, unique_content_hash, doc_id,
                   document_summaries, document_departments, classifierVars, orchestratorVars, authVars, sessionVars, concurrentVars>>

(* lines 274-297 and 321-323: the first insert into documents, with the    *)
(* content_hash of the file.  The table has a unique constraint on         *)
(* content_hash: with a row of that hash the call raises the duplicate key *)
(* error, which line 295 recognizes.  A result without data (line 286) and *)
(* an exception of another text (line 321) end the request.                *)
InsertDocument ==
    /\ upc = "insert"
    /\ insert_attempts' = insert_attempts + 1
    /\ \/ /\ calculate_file_hash(pdf) \notin documents
          /\ documents' = documents \cup {calculate_file_hash(pdf)}
          /\ doc_id' = Some("doc")
          /\ upc' = "summary"
          /\ UNCHANGED response
       \/ /\ calculate_file_hash(pdf) \in documents
          /\ upc' = "retry_hash"
          /\ UNCHANGED <<documents, doc_id, response>>
       \/ /\ Respond(500, "Database insert failed")
          /\ UNCHANGED <<documents, doc_id>>
    /\ UNCHANGED <<request, bucket, now, unique_content_hash, document_summaries,
                   document_departments, classifierVars, orchestratorVars, authVars, sessionVars, concurrentVars>>

(* lines 296-299: unique_content_hash = f"{content_hash}_{int(time.time())}" *)
GenerateUniqueHash ==
    /\ upc = "retry_hash"
    /\ unique_content_hash' = Some(suffixed_content_hash(pdf, now))
    /\ upc' = "retry_insert"
    /\ UNCHANGED <<request, bucket, documents, now, insert_attempts, doc_id, document_summaries,
                   document_departments, response, classifierVars, orchestratorVars, authVars, sessionVars, concurrentVars>>

(* lines 301-320: the second insert, with unique_content_hash.  A result   *)
(* without data ends the request at line 314; every exception, the         *)
(* duplicate key error of a row with this hash included, at line 320.      *)
RetryInsertDocument ==
    /\ upc = "retry_insert"
    /\ insert_attempts' = insert_attempts + 1
    /\ \/ /\ ValueOf(unique_content_hash) \notin documents
          /\ documents' = documents \cup {ValueOf(unique_content_hash)}
          /\ doc_id' = Some("doc")
          /\ upc' = "summary"
          /\ UNCHANGED response
       \/ /\ ValueOf(unique_content_hash) \notin documents
          /\ Respond(500, "Retry database insert failed")
          /\ UNCHANGED <<documents, doc_id>>
       \/ /\ Respond(500, "Database insert failed after retry")
          /\ UNCHANGED <<documents, doc_id>>
    /\ UNCHANGED <<request, bucket, now, unique_content_hash, document_summaries,
                   document_departments, classifierVars, orchestratorVars, authVars, sessionVars, concurrentVars>>

(* lines 328-338: the first predicted department, looked up in departments *)
PrimaryDepartmentIds ==
    LET predicted_departments == ValueOf(classification_results).predicted_departments
    IN  IF predicted_departments # None /\ ValueOf(predicted_departments) # <<>>
        THEN {Some(ValueOf(predicted_departments)[1]), None}
        ELSE {None}

(* lines 325-361: the insert into document_summaries; a failure is logged *)
StoreSummary ==
    /\ upc = "summary"
    /\ \/ \E dept \in PrimaryDepartmentIds :
             document_summaries' = document_summaries \cup
                 {[document_id |-> ValueOf(doc_id), summary_text |-> summary, department_id |-> dept]}
       \/ UNCHANGED document_summaries
    /\ upc' = "link"
    /\ UNCHANGED <<request, bucket, documents, now, insert_attempts, unique_content_hash, doc_id,
                   document_departments, response, classifierVars, orchestratorVars, authVars, sessionVars, concurrentVars>>

(* a linking step that undoes the upload when the linking fails: the row,  *)
(* its summary and the stored file are removed                             *)
LinkOrRollBack ==
    /\ upc = "link"
    /\ \/ /\ document_departments' = document_departments \cup {ValueOf(doc_id)}
          /\ upc' = "respond"
          /\ UNCHANGED <<response, bucket, documents, document_summaries>>
       \/ /\ \/ Respond(200, "User not mapped to any department")
             \/ Respond(500, "Failed linking document to departments")
          /\ bucket' = bucket \ {storage_name}
          /\ documents' = documents \ {IF unique_content_hash = None
                                        THEN calculate_file_hash(pdf)
                                        ELSE ValueOf(unique_content_hash)}
          /\ document_summaries' = {}
          /\ UNCHANGED document_departments
    /\ UNCHANGED <<request, now, insert_attempts, unique_content_hash, doc_id,
                   classifierVars, orchestratorVars, authVars, sessionVars, concurrentVars>>

(* lines 363-373 and link_document_to_departments, lines 201-221 *)
LinkDocumentToDepartments ==
    /\ upc = "link"
    /\ \/ /\ Respond(200, "User not mapped to any department")
          /\ UNCHANGED document_departments
       \/ /\ document_departments' = document_departments \cup {ValueOf(doc_id)}
          /\ upc' = "respond"
          /\ UNCHANGED response
       \/ /\ Respond(500, "Failed linking document to departments")
          /\ UNCHANGED document_departments
    /\ UNCHANGED <<request, bucket, documents, now, insert_attempts, unique_content_hash, doc_id,
                   document_summaries, classifierVars, orchestratorVars, authVars, sessionVars, concurrentVars>>

(* lines 375-393 *)
RespondCreated ==
    /\ upc = "respond"
    /\ Respond(201, "Document uploaded and processed successfully")
    /\ UNCHANGED <<request, bucket, documents, now, insert_attempts, unique_content_hash, doc_id,
                   document_summaries, document_departments, classifierVars, orchestratorVars, authVars, sessionVars, concurrentVars>>

UploadDocument ==
    \/ ValidateRequest
    \/ ProcessUploadedFile
    \/ StorageUpload
    \/ CallClassifyAndSummarize
    \/ ClassifyAndSummarizeDone
    \/ InsertDocument
    \/ GenerateUniqueHash
    \/ RetryInsertDocument
    \/ StoreSummary
    \/ LinkDocumentToDepartments
    \/ RespondCreated

(***************************************************************************)
(* JSON Web Tokens (utils/jwt_utils.py).  A token is the sequence of its   *)
(* characters: header segment, ".", payload segment, ".", signature.       *)
(***************************************************************************)
MaxIssue == 1
MaxClock == 25

(* timedelta(hours=24) *)
TokenLifetime == 24

(* current_app.config['JWT_SECRET_KEY'], and a key that is not it *)
JWT_SECRET_KEY == "k"
OtherKey == "x"

(* rows of the users table; a field value is one character *)
Users ==
    { [id |-> "1", email |-> "e", name |-> "n", role |-> "s"],
      [id |-> "2", email |-> "f", name |-> "m", role |-> "a"] }

Digits == <<"0", "1", "2", "3", "4", "5", "6", "7", "8", "9">>

DigitValue(c) == (CHOOSE i \in 1..Len(Digits) : Digits[i] = c) - 1

(* a timestamp written with two digits, and read back *)
Dec2(n) == <<Digits[(n \div Len(Digits)) + 1], Digits[(n % Len(Digits)) + 1]>>

IsDec2(cs) == Len(cs) = Len(Dec2(0)) /\ \A i \in 1..Len(cs) : cs[i] \in Range(Digits)

ParseDec2(cs) == DigitValue(cs[1]) * Len(Digits) + DigitValue(cs[2])

(* the header segment of {"alg": alg, "typ": "JWT"} *)
HeaderSegment(alg) == IF alg = "HS256" THEN <<"H">> ELSE <<"N">>

(* the payload segment: the four user fields, exp and iat *)
PayloadSegment(p) == <<p.user_id, p.email, p.name, p.role>> \o Dec2(p.exp) \o Dec2(p.iat)

Dot == "."

(* HMAC-SHA256 of the signing input under the key: it changes with the key *)
(* and with every character of the input                                   *)
Sign(key, signing_input) == <<key>> \o SelectSeq(signing_input, LAMBDA c : c # Dot)

(* jwt.encode(payload, key, algorithm) *)
jwt_encode(p, key, alg) ==
    LET signing_input == HeaderSegment(alg) \o <<Dot>> \o PayloadSegment(p)
    IN  signing_input \o <<Dot>> \o Sign(key, signing_input)

(* lines 15-24: the payload of a token issued at time t *)
TokenPayload(user, t) ==
    [user_id |-> user.id, email |-> user.email, name |-> user.name, role |-> user.role,
     exp |-> t + TokenLifetime, iat |-> t]

(* lines 5-32 *)
generate_jwt_token(user, t) == jwt_encode(TokenPayload(user, t), JWT_SECRET_KEY, "HS256")

(* positions of the dots of a token *)
Dots(cs) == {i \in 1..Len(cs) : cs[i] = Dot}

IsPayloadSegment(cs) ==
    /\ Len(cs) = Len(PayloadSegment(TokenPayload(CHOOSE u \in Users : TRUE, 0)))
    /\ IsDec2(SubSeq(cs, 5, 6))
    /\ IsDec2(SubSeq(cs, 7, 8))

ParsePayload(cs) ==
    [user_id |-> cs[1], email |-> cs[2], name |-> cs[3], role |-> cs[4],
     exp |-> ParseDec2(SubSeq(cs, 5, 6)), iat |-> ParseDec2(SubSeq(cs, 7, 8))]

(* an expiry test that lets the token live through the hour of its exp *)
IsExpiredLate(p, t) == p.exp < t

(* the token is at or past its exp at time t: ExpiredSignatureError *)
IsExpired(p, t) == p.exp <= t

(* the token's iat is after time t: ImmatureSignatureError, which is an     *)
(* InvalidTokenError                                                       *)
IsImmature(p, t) == p.iat > t

(* jwt.decode(token, key, algorithms=['HS256']) at time t: the payload, or  *)
(* None where it raises ExpiredSignatureError or another InvalidTokenError  *)
jwt_decode(tok, key, t) ==
    IF Cardinality(Dots(tok)) < 2 THEN None
    ELSE LET last == CHOOSE i \in Dots(tok) : \A j \in Dots(tok) : j <= i
             signing_input == SubSeq(tok, 1, last - 1)
             crypto_segment == SubSeq(tok, last + 1, Len(tok))
             first == CHOOSE i \in Dots(tok) : \A j \in Dots(tok) : i <= j
             header_segment == SubSeq(signing_input, 1, first - 1)
             payload_segment == SubSeq(signing_input, first + 1, Len(signing_input))
         IN  IF header_segment # HeaderSegment("HS256") THEN None
             ELSE IF crypto_segment # Sign(key, signing_input) THEN None
             ELSE IF ~IsPayloadSegment(payload_segment) THEN None
             ELSE IF IsImmature(ParsePayload(payload_segment), t) THEN None
             ELSE IF IsExpired(ParsePayload(payload_segment), t) THEN None
             ELSE Some(ParsePayload(payload_segment))

(* a verification under a key that is not the application's *)
VerifyWithOtherKey(tok, t) == jwt_decode(tok, OtherKey, t)

(* a verification that also refuses every token once the client logged out *)
VerifyUnlessLoggedOut(tok, t) ==
    IF spc = "logged_out" THEN None ELSE jwt_decode(tok, JWT_SECRET_KEY, t)

(* lines 34-54 *)
verify_jwt_token(tok, t) == jwt_decode(tok, JWT_SECRET_KEY, t)

(* tokens issued by generate_jwt_token *)
IssuedTokens == {generate_jwt_token(u, t) : u \in Users, t \in 0..MaxIssue}

(* a token of the staff user with the role rewritten, under the old signature *)
TamperedTokens ==
    {[tok EXCEPT ![6] = "a"] : tok \in {generate_jwt_token(u, 0) : u \in {v \in Users : v.role = "s"}}}

(* tokens that were not issued here *)
ForeignTokens ==
    {jwt_encode(TokenPayload(u, 0), OtherKey, "HS256") : u \in Users}
    \cup {jwt_encode(TokenPayload(u, 0), JWT_SECRET_KEY, "none") : u \in Users}
    \cup TamperedTokens
    \cup {Spell["invalid.jwt.token"], Spell["token123"]}

Tokens == IssuedTokens \cup ForeignTokens

(***************************************************************************)
(* The middleware (utils/auth_middleware.py)                               *)
(***************************************************************************)

(* auth_header.startswith(prefix) *)
startswith(cs, prefix) == Len(cs) >= Len(prefix) /\ SubSeq(cs, 1, Len(prefix)) = prefix

(* auth_header.split(' ') *)
RECURSIVE split(_, _)
split(cs, sep) ==
    IF \A i \in 1..Len(cs) : cs[i] # sep THEN <<cs>>
    ELSE LET i == CHOOSE k \in 1..Len(cs) : cs[k] = sep /\ \A j \in 1..(k - 1) : cs[j] # sep
         IN  <<SubSeq(cs, 1, i - 1)>> \o split(SubSeq(cs, i + 1, Len(cs)), sep)

(* the truth value of a string or None *)
Truthy(o) == o # None /\ ValueOf(o) # <<>>

(* values of the Authorization header *)
AuthHeaders ==
    {None, Some(<<>>), Some(Spell["Bearer"]), Some(Spell["Bearer "])}
    \cup {Some(Spell["Bearer "] \o tok) : tok \in Tokens}
    \cup {Some(Spell["Bearer "] \o <<" ">> \o tok) : tok \in IssuedTokens}
    \cup {Some(Spell["bearer "] \o tok) : tok \in IssuedTokens}
    \cup {Some(Spell["InvalidFormat "] \o tok) : tok \in {Spell["token123"]} \cup IssuedTokens}

(* values of the auth_token cookie *)
AuthCookies == {None, Some(<<>>)} \cup {Some(tok) : tok \in Tokens}

AuthIdle ==
    /\ apc = "idle"
    /\ decorator = "jwt_required"
    /\ auth_header = None
    /\ auth_cookie = None
    /\ utcnow = 0
    /\ token = None
    /\ current_user = None
    /\ handler_calls = 0
    /\ auth_response = None

(* lines 23-25: auth_header.split(' ')[1] of a header that starts with     *)
(* 'Bearer '                                                               *)
BearerToken(header) ==
    IF Truthy(header) /\ startswith(ValueOf(header), Spell["Bearer "])
    THEN Some(split(ValueOf(header), " ")[2])
    ELSE None

(* a middleware that reads the header and never the cookie *)
GetTokenHeaderOnly ==
    /\ apc = "received"
    /\ token' = BearerToken(auth_header)
    /\ apc' = "token"
    /\ UNCHANGED <<decorator, auth_header, auth_cookie, utcnow, current_user, handler_calls,
                   auth_response>>
    /\ UNCHANGED <<classifierVars, orchestratorVars, uploadVars, sessionVars, concurrentVars>>

(* a middleware that prefers the cookie and reads the header only without one *)
GetTokenCookieFirst ==
    /\ apc = "received"
    /\ token' = IF Truthy(auth_cookie) THEN auth_cookie ELSE BearerToken(auth_header)
    /\ apc' = "token"
    /\ UNCHANGED <<decorator, auth_header, auth_cookie, utcnow, current_user, handler_calls,
                   auth_response>>
    /\ UNCHANGED <<classifierVars, orchestratorVars, uploadVars, sessionVars, concurrentVars>>

(* lines 20-29 and 62-71: the token of the header, else the cookie *)
GetToken ==
    /\ apc = "received"
    /\ token' = IF Truthy(BearerToken(auth_header)) THEN BearerToken(auth_header) ELSE auth_cookie
    /\ apc' = "token"
    /\ UNCHANGED <<decorator, auth_header, auth_cookie, utcnow, current_user, handler_calls,
                   auth_response>>
    /\ UNCHANGED <<classifierVars, orchestratorVars, uploadVars, sessionVars, concurrentVars>>

AuthError(status, message) ==
    [status |-> status, error |-> Some(message), authenticated |-> FALSE, user |-> None]

(* lines 31-32 *)
JwtRequiredMissing ==
    /\ apc = "token"
    /\ decorator = "jwt_required"
    /\ ~Truthy(token)
    /\ auth_response' = Some(AuthError(401, "Authentication token is missing"))
    /\ apc' = "done"
    /\ UNCHANGED <<decorator, auth_header, auth_cookie, utcnow, token, current_user, handler_calls>>
    /\ UNCHANGED <<classifierVars, orchestratorVars, uploadVars, sessionVars, concurrentVars>>

(* lines 34-39 *)
JwtRequiredVerify ==
    /\ apc = "token"
    /\ decorator = "jwt_required"
    /\ Truthy(token)
    /\ IF verify_jwt_token(ValueOf(token), utcnow) = None
       THEN /\ auth_response' = Some(AuthError(401, "Invalid or expired token"))
            /\ apc' = "done"
            /\ UNCHANGED current_user
       ELSE /\ current_user' = verify_jwt_token(ValueOf(token), utcnow)
            /\ apc' = "handler"
            /\ UNCHANGED auth_response
    /\ UNCHANGED <<decorator, auth_header, auth_cookie, utcnow, token, handler_calls>>
    /\ UNCHANGED <<classifierVars, orchestratorVars, uploadVars, sessionVars, concurrentVars>>

(* lines 73-76 *)
JwtOptionalVerify ==
    /\ apc = "token"
    /\ decorator = "jwt_optional"
    /\ current_user' = IF Truthy(token) THEN verify_jwt_token(ValueOf(token), utcnow) ELSE current_user
    /\ apc' = "handler"
    /\ UNCHANGED <<decorator, auth_header, auth_cookie, utcnow, token, handler_calls, auth_response>>
    /\ UNCHANGED <<classifierVars, orchestratorVars, uploadVars, sessionVars, concurrentVars>>

(* lines 41 and 78, the call of the wrapped handler f: the routes of       *)
(* app.py, lines 26-60                                                     *)
CallHandler ==
    /\ apc = "handler"
    /\ handler_calls' = handler_calls + 1
    /\ auth_response' = Some([status |-> 200, error |-> None,
                              authenticated |-> current_user # None, user |-> current_user])
    /\ apc' = "done"
    /\ UNCHANGED <<decorator, auth_header, auth_cookie, utcnow, token, current_user>>
    /\ UNCHANGED <<classifierVars, orchestratorVars, uploadVars, sessionVars, concurrentVars>>

DecoratedFunction ==
    GetToken \/ JwtRequiredMissing \/ JwtRequiredVerify \/ JwtOptionalVerify \/ CallHandler


(***************************************************************************)
(* A client's session: login, logout and a request (routes/auth_routes.py) *)
(***************************************************************************)
SessionIdle ==
    /\ spc = "start"
    /\ cookie_jar = None
    /\ session_token = None

(* routes/auth_routes.py, lines 37-89: POST /login.  With a valid password *)
(* the response carries a new token in the auth_token cookie; the server   *)
(* stores nothing about it.                                                *)
Login ==
    /\ apc = "idle"
    /\ spc \in {"start", "refused"}
    /\ utcnow <= MaxIssue
    /\ \E user \in Users, password_valid \in BOOLEAN :
          IF password_valid
          THEN /\ session_token' = Some(generate_jwt_token(user, utcnow))
               /\ cookie_jar' = Some(generate_jwt_token(user, utcnow))
               /\ spc' = "logged_in"
          ELSE /\ spc' = "refused"
               /\ UNCHANGED <<cookie_jar, session_token>>
    /\ UNCHANGED <<classifierVars, orchestratorVars, uploadVars, authVars, concurrentVars>>

(* lines 91-103: POST /logout sets the auth_token cookie to '' with        *)
(* max_age=0                                                               *)
Logout ==
    /\ apc = "idle"
    /\ spc = "logged_in"
    /\ cookie_jar' = Some(<<>>)
    /\ spc' = "logged_out"
    /\ UNCHANGED <<session_token, classifierVars, orchestratorVars, uploadVars, authVars,
                   concurrentVars>>

(* an hour passes between two requests of the client *)
Tick ==
    /\ apc = "idle"
    /\ utcnow < MaxClock
    /\ utcnow' = utcnow + 1
    /\ UNCHANGED <<apc, decorator, auth_header, auth_cookie, token, current_user, handler_calls,
                   auth_response>>
    /\ UNCHANGED <<classifierVars, orchestratorVars, uploadVars, sessionVars, concurrentVars>>

(* the headers a client of this session can send: none, or the token it    *)
(* was issued as a Bearer token                                            *)
SessionHeaders ==
    {None} \cup (IF session_token = None THEN {}
                 ELSE {Some(Spell["Bearer "] \o ValueOf(session_token))})

(* the cookies it can send: none, what its cookie jar holds, or the cookie *)
(* login set, kept in spite of the logout                                  *)
SessionCookies == {None, cookie_jar, session_token}

(* the client sends a request to a route behind jwt_required or            *)
(* jwt_optional (app.py, lines 26-60)                                      *)
SendRequest ==
    /\ apc = "idle"
    /\ apc' = "received"
    /\ decorator' \in {"jwt_required", "jwt_optional"}
    /\ auth_header' \in SessionHeaders
    /\ auth_cookie' \in SessionCookies
    /\ UNCHANGED <<utcnow, token, current_user, handler_calls, auth_response>>
    /\ UNCHANGED <<classifierVars, orchestratorVars, uploadVars, sessionVars, concurrentVars>>

(***************************************************************************)
(* Requests that insert into documents at the same time: uploads of one    *)
(* content (routes/document_routes.py, lines 272-323) and a translation    *)
(* (routes/translate_routes.py, lines 30-123)                              *)
(***************************************************************************)
ConcurrentIdle ==
    /\ uploads = <<>>
    /\ translations = <<>>

(* uploads that run at the same time *)
MaxUploads == 3

(* translations that run at the same time as the uploads *)
MaxTranslations == 1

(* seconds the clock can advance while they run *)
MaxNow == 2

Uploaders == 1..MaxUploads

Translators == 1..MaxTranslations

(* an upload that has stored its file and classified it, about to insert *)
AtInsert ==
    [pc |-> "insert", insert_attempts |-> 0, first_error |-> "none", retry_error |-> "none",
     unique_content_hash |-> None, content_hash |-> None, response |-> None]

(* the upload answers status with an error body *)
Fail(u, status, body) ==
    [u EXCEPT !.pc = "done", !.response = Some([status |-> status, body |-> body])]

(* lines 274-297 and 321-323: the first insert, with content_hash of the   *)
(* file.  A row with that content_hash makes it raise the duplicate key    *)
(* error, which line 295 recognizes; a result without data and an          *)
(* exception of another text end the request.                              *)
ConcurrentInsert(p) ==
    /\ uploads[p].pc = "insert"
    /\ LET u == [uploads[p] EXCEPT !.insert_attempts = @ + 1]
       IN  \/ /\ calculate_file_hash(pdf) \notin documents
              /\ documents' = documents \cup {calculate_file_hash(pdf)}
              /\ uploads' = [uploads EXCEPT ![p] = [u EXCEPT !.pc = "inserted",
                                  !.content_hash = Some(calculate_file_hash(pdf))]]
           \/ /\ calculate_file_hash(pdf) \in documents
              /\ uploads' = [uploads EXCEPT ![p] = [u EXCEPT !.pc = "retry_hash",
                                                            !.first_error = "duplicate"]]
              /\ UNCHANGED documents
           \/ /\ uploads' = [uploads EXCEPT ![p] =
                                  Fail([u EXCEPT !.first_error = "other"],
                                       500, "Database insert failed")]
              /\ UNCHANGED documents
    /\ UNCHANGED <<upc, request, bucket, now, insert_attempts, unique_content_hash, doc_id,
                   document_summaries, document_departments, response, translations>>
    /\ UNCHANGED <<classifierVars, orchestratorVars, authVars, sessionVars>>

(* lines 296-299: unique_content_hash = f"{content_hash}_{int(time.time())}" *)
ConcurrentGenerateUniqueHash(p) ==
    /\ uploads[p].pc = "retry_hash"
    /\ uploads' = [uploads EXCEPT ![p] =
                       [@ EXCEPT !.pc = "retry_insert",
                                 !.unique_content_hash = Some(suffixed_content_hash(pdf, now))]]
    /\ UNCHANGED <<upc, request, bucket, documents, now, insert_attempts, unique_content_hash,
                   doc_id, document_summaries, document_departments, response, translations>>
    /\ UNCHANGED <<classifierVars, orchestratorVars, authVars, sessionVars>>

(* lines 301-320: the second insert, with unique_content_hash *)
ConcurrentRetry(p) ==
    /\ uploads[p].pc = "retry_insert"
    /\ LET u == [uploads[p] EXCEPT !.insert_attempts = @ + 1]
           h == ValueOf(u.unique_content_hash)
       IN  \/ /\ h \notin documents
              /\ documents' = documents \cup {h}
              /\ uploads' = [uploads EXCEPT ![p] = [u EXCEPT !.pc = "inserted",
                                                            !.content_hash = Some(h)]]
           \/ /\ h \notin documents
              /\ uploads' = [uploads EXCEPT ![p] =
                                  Fail([u EXCEPT !.retry_error = "other"],
                                       500, "Retry database insert failed")]
              /\ UNCHANGED documents
           \/ /\ h \in documents
              /\ uploads' = [uploads EXCEPT ![p] =
                                  Fail([u EXCEPT !.retry_error = "duplicate"],
                                       500, "Database insert failed after retry")]
              /\ UNCHANGED documents
           \/ /\ uploads' = [uploads EXCEPT ![p] =
                                  Fail([u EXCEPT !.retry_error = "other"],
                                       500, "Database insert failed after retry")]
              /\ UNCHANGED documents
    /\ UNCHANGED <<upc, request, bucket, now, insert_attempts, unique_content_hash, doc_id,
                   document_summaries, document_departments, response, translations>>
    /\ UNCHANGED <<classifierVars, orchestratorVars, authVars, sessionVars>>

(* int(time.time()) moves on by a second *)
SecondPasses ==
    /\ now < MaxNow
    /\ now' = now + 1
    /\ UNCHANGED <<upc, request, bucket, documents, insert_attempts, unique_content_hash, doc_id,
                   document_summaries, document_departments, response>>
    /\ UNCHANGED <<classifierVars, orchestratorVars, authVars, sessionVars, concurrentVars>>

(* the object translate_document stores, line 70 *)
translated_storage_name == "uuid_title_translated_ml.pdf"

(* a document of another content than the uploads' *)
OtherPdf == [pages |-> {"Invoice"}, ents |-> <<>>, matches |-> <<>>]

(* what translate_pdf may write: the content of the uploads, or another *)
TranslatedFiles == {pdf, OtherPdf}

(* a translation request that has arrived *)
AtTranslate(file) == [pc |-> "received", temp_output |-> file, response |-> None]

(* the answers of lines 36, 44, 47 and 51 *)
TranslateRefusals ==
    { "No file provided", "Invalid direction. Use 'ml2en' or 'en2ml'",
      "uploaded_by is required", "Only PDF files are supported for translation" }

(* lines 33-77: the request is checked, the file translated and the        *)
(* translated file stored in documents_bucket; any exception is answered   *)
(* at line 123                                                             *)
TranslateStore(q) ==
    /\ translations[q].pc = "received"
    /\ \/ /\ \E body \in TranslateRefusals :
                translations' = [translations EXCEPT ![q] = Fail(@, 400, body)]
          /\ UNCHANGED bucket
       \/ /\ translations' = [translations EXCEPT ![q] = Fail(@, 500, "Translation failed")]
          /\ UNCHANGED bucket
       \/ /\ bucket' = bucket \cup {translated_storage_name}
          /\ translations' = [translations EXCEPT ![q] = [@ EXCEPT !.pc = "insert"]]
    /\ UNCHANGED <<upc, request, documents, now, insert_attempts, unique_content_hash, doc_id,
                   document_summaries, document_departments, response, uploads>>
    /\ UNCHANGED <<classifierVars, orchestratorVars, authVars, sessionVars>>

(* lines 79-111 and 113-123: the row of the translated document, with the  *)
(* content_hash of the translated file.  The insert and what follows it    *)
(* (the os.unlink calls of lines 102-103, the answer) are in the try       *)
(* block: an exception after the row was stored is answered at line 123    *)
(* and the row stays.                                                      *)
TranslateInsert(q) ==
    /\ translations[q].pc = "insert"
    /\ LET content_hash == calculate_file_hash(translations[q].temp_output)
       IN  \/ /\ content_hash \notin documents
              /\ documents' = documents \cup {content_hash}
              /\ \/ translations' = [translations EXCEPT ![q] =
                                         Fail(@, 200, "Document translated successfully")]
                 \/ translations' = [translations EXCEPT ![q] =
                                         Fail(@, 500, "Translation failed")]
           \/ /\ content_hash \notin documents
              /\ translations' = [translations EXCEPT ![q] =
                                      Fail(@, 500, "Failed to save translated document to database")]
              /\ UNCHANGED documents
           \/ /\ translations' = [translations EXCEPT ![q] = Fail(@, 500, "Translation failed")]
              /\ UNCHANGED documents
    /\ UNCHANGED <<upc, request, bucket, now, insert_attempts, unique_content_hash, doc_id,
                   document_summaries, document_departments, response, uploads>>
    /\ UNCHANGED <<classifierVars, orchestratorVars, authVars, sessionVars>>

(* translate_document, registered under /translate (app.py, line 24) *)
TranslateDocument(q) == TranslateStore(q) \/ TranslateInsert(q)
(***************************************************************************)
(* Specifications                                                          *)
(***************************************************************************)

(* classify_department called on any metadata and any text *)
Init ==
    /\ metadata \in DocumentMetadata
    /\ full_text \in Texts
    /\ kpc = "called"
    /\ rawRules = NewRaw
    /\ raw = NewRaw
    /\ normalized = <<>>
    /\ predicted = <<>>
    /\ OrchestratorIdle
    /\ UploadIdle
    /\ AuthIdle
    /\ SessionIdle
    /\ ConcurrentIdle

Next == ApplyRules \/ ApplyDominance \/ NormalizeAndReturn

Spec == Init /\ [][Next]_vars

(* classify_and_summarize_document called on any document *)
InitOrchestrator ==
    /\ ClassifierIdle
    /\ cpc = "start"
    /\ is_existing \in BOOLEAN
    /\ source \in {"path", "url"}
    /\ pdf \in Pdfs
    /\ temp_pdf_path = None
    /\ classifier_loads = 0
    /\ classifier = None
    /\ exc = None
    /\ extracted_text = None
    /\ summary = None
    /\ classification_results = None
    /\ UploadIdle
    /\ AuthIdle
    /\ SessionIdle
    /\ ConcurrentIdle

NextOrchestrator == Download \/ ClassifyAndSummarize \/ ClassifyDepartment \/ CallAgain

SpecOrchestrator == InitOrchestrator /\ [][NextOrchestrator]_vars

(* one upload request; the documents table may hold rows of earlier        *)
(* uploads of the same content                                             *)
InitUpload ==
    /\ ClassifierIdle
    /\ cpc = "idle"
    /\ is_existing = FALSE
    /\ source = "path"
    /\ pdf \in Pdfs
    /\ temp_pdf_path = None
    /\ classifier_loads = 0
    /\ classifier = None
    /\ exc = None
    /\ extracted_text = None
    /\ summary = None
    /\ classification_results = None
    /\ upc = "received"
    /\ request \in Requests
    /\ bucket = {}
    /\ now = 0
    /\ documents \in SUBSET {calculate_file_hash(pdf), suffixed_content_hash(pdf, now)}
    /\ insert_attempts = 0
    /\ unique_content_hash = None
    /\ doc_id = None
    /\ document_summaries = {}
    /\ document_departments = {}
    /\ response = None
    /\ AuthIdle
    /\ SessionIdle
    /\ ConcurrentIdle

NextUpload == UploadDocument \/ ClassifyAndSummarize \/ ClassifyDepartment

SpecUpload == InitUpload /\ [][NextUpload]_vars

(* one request to a route behind jwt_required or jwt_optional, at a time   *)
(* that is not before the issue of the tokens                              *)
InitAuth ==
    /\ ClassifierIdle
    /\ OrchestratorIdle
    /\ UploadIdle
    /\ apc = "received"
    /\ decorator \in {"jwt_required", "jwt_optional"}
    /\ auth_header \in AuthHeaders
    /\ auth_cookie \in AuthCookies
    /\ utcnow \in MaxIssue..MaxClock
    /\ token = None
    /\ current_user = None
    /\ handler_calls = 0
    /\ auth_response = None
    /\ SessionIdle
    /\ ConcurrentIdle

NextAuth == GetToken \/ JwtRequiredMissing \/ JwtRequiredVerify \/ JwtOptionalVerify \/ CallHandler

SpecAuth == InitAuth /\ [][NextAuth]_vars

(* a client that logs in, may log out, and sends one request, with any     *)
(* number of hours between these                                           *)
InitSession ==
    /\ ClassifierIdle
    /\ OrchestratorIdle
    /\ UploadIdle
    /\ AuthIdle
    /\ SessionIdle
    /\ ConcurrentIdle

NextSession == Login \/ Logout \/ Tick \/ SendRequest \/ DecoratedFunction

SpecSession == InitSession /\ [][NextSession]_vars

(* uploads of one content running at the same time, each about to insert   *)
(* its row with its file stored in the bucket, and a translation; an       *)
(* earlier request may have stored the content already                     *)
InitConcurrentUploads ==
    /\ ClassifierIdle
    /\ OrchestratorIdle
    /\ AuthIdle
    /\ SessionIdle
    /\ upc = "idle"
    /\ request = [has_file |-> FALSE, has_title_and_uploader |-> FALSE]
    /\ bucket = {storage_name}
    /\ documents \in SUBSET {calculate_file_hash(pdf)}
    /\ now = 0
    /\ insert_attempts = 0
    /\ unique_content_hash = None
    /\ doc_id = None
    /\ document_summaries = {}
    /\ document_departments = {}
    /\ response = None
    /\ uploads = [p \in Uploaders |-> AtInsert]
    /\ translations \in [Translators -> {AtTranslate(file) : file \in TranslatedFiles}]

NextConcurrentUploads ==
    \/ \E p \in Uploaders : ConcurrentInsert(p)
    \/ \E p \in Uploaders : ConcurrentGenerateUniqueHash(p)
    \/ \E p \in Uploaders : ConcurrentRetry(p)
    \/ \E q \in Translators : TranslateDocument(q)
    \/ SecondPasses

SpecConcurrentUploads == InitConcurrentUploads /\ [][NextConcurrentUploads]_vars

(***************************************************************************)
(* Properties                                                              *)
(***************************************************************************)

(* classify_department is over: it returned or raised *)
ClassifyOver == kpc \in {"returned", "ZeroDivisionError"}

(* no pattern list is non-empty and no keyword or phrase is in the text *)
ZeroSignal ==
    /\ \A cat \in DOMAIN metadata : \A field \in DOMAIN metadata[cat] : metadata[cat][field] = <<>>
    /\ \A k \in Keywords : ~InText(k, full_text)

(* some rule added to some department *)
RuleFired == \E d \in DOMAIN rawRules.val : rawRules.val[d] > 0

(* d holds the maximum of the final raw scores *)
IsMaxRaw(d) == \A e \in DOMAIN raw.val : raw.val[e] <= raw.val[d]

(* C1: with no pattern match and no keyword in the text, classify_department *)
(* returns normally, predicts no department and every normalized score is   *)
(* 0.0.                                                                     *)
C1_ZeroSignalReturnsEmpty ==
    (ClassifyOver /\ ZeroSignal) =>
        /\ kpc = "returned"
        /\ predicted = <<>>
        /\ \A d \in DOMAIN normalized : normalized[d] = 0

(* C2: when at least one rule fires, the call returns, every normalized     *)
(* score lies in [0, 1] and every department that holds the maximum final   *)
(* raw score has the normalized score 1.0.                                  *)
C2_NormalizedInUnitInterval ==
    (ClassifyOver /\ RuleFired) =>
        /\ kpc = "returned"
        /\ \A d \in DOMAIN normalized :
              /\ 0 <= normalized[d] /\ normalized[d] <= 100
              /\ IsMaxRaw(d) => normalized[d] = 100

C2_Witness ==
    /\ kpc = "returned"
    /\ RuleFired
    /\ \E d, e \in DOMAIN normalized :
          /\ IsMaxRaw(d) /\ normalized[d] = 100
          /\ 0 < normalized[e] /\ normalized[e] < 100

(* C7: when Procurement's raw score is >= 3.0 at the start of the dominance *)
(* pass, every other department that was below 3.0 there ends the whole     *)
(* pass with a score that is not above its score before the pass.           *)
C7_DominanceMonotone ==
    (kpc \in {"dominated", "returned", "ZeroDivisionError"}
       /\ Get(rawRules, "Procurement") >= DominanceThreshold) =>
        \A d \in Departments \ {"Procurement"} :
            Get(rawRules, d) < DominanceThreshold => Get(raw, d) <= Get(rawRules, d)

C7_Witness ==
    /\ kpc = "dominated"
    /\ Get(rawRules, "Procurement") >= DominanceThreshold
    /\ \E d \in Departments \ {"Procurement"} :
          /\ 0 < Get(rawRules, d) /\ Get(rawRules, d) < DominanceThreshold
          /\ Get(raw, d) < Get(rawRules, d)
    /\ \E d \in Departments \ {"Procurement"} : Get(rawRules, d) >= DominanceThreshold

(* Scenario A: the tender-id pattern matched once, the text contains        *)
(* "notice inviting tender" and "bidder", and no rule of another department *)
(* fires.                                                                   *)
ScenarioA ==
    /\ Len(metadata["Procurement"]["TENDER_ID"]) = 1
    /\ InText("notice inviting tender", full_text)
    /\ InText("bidder", full_text)
    /\ \A d \in Departments \ {"Procurement"} : Get(rawRules, d) = 0

(* C8: in Scenario A classify_department predicts exactly Procurement.      *)
C8_ScenarioAPredictsProcurement ==
    (ClassifyOver /\ ScenarioA) => (kpc = "returned" /\ predicted = <<"Procurement">>)

C8_Witness ==
    /\ kpc = "returned"
    /\ ScenarioA
    /\ predicted = <<"Procurement">>

(* Scenario D: exactly one case-number match and, as the only other signal, *)
(* the keyword "invoice".                                                   *)
ScenarioD ==
    /\ \A cat \in DOMAIN metadata : \A field \in DOMAIN metadata[cat] :
          Len(metadata[cat][field]) = IF field = "CASE_NO" THEN 1 ELSE 0
    /\ \A k \in Keywords : InText(k, full_text) <=> k = "invoice"

(* C9: in Scenario D Legal is 3.0 and Finance 1.5 before the pass, the      *)
(* Legal pass leaves Finance at 1.5 x 0.35 = 0.525, the scores are divided  *)
(* by the boosted Legal score 6.0 (Finance 0.09), and exactly Legal is      *)
(* predicted.                                                               *)
C9_ScenarioDPredictsLegal ==
    (ClassifyOver /\ ScenarioD) =>
        /\ kpc = "returned"
        /\ Get(rawRules, "Legal") = Tenths(30)
        /\ Get(rawRules, "Finance") = Tenths(15)
        /\ 1000 * Get(raw, "Finance") = 525 * Unit
        /\ Get(raw, "Legal") = Tenths(60)
        /\ IsMaxRaw("Legal")
        /\ normalized["Legal"] = 100
        /\ normalized["Finance"] = 9
        /\ predicted = <<"Legal">>

C9_Witness ==
    /\ kpc = "returned"
    /\ ScenarioD
    /\ predicted = <<"Legal">>

(* d is the only department with a positive raw score *)
OnlySignal(d) ==
    /\ Get(rawRules, d) > 0
    /\ \A e \in Departments \ {d} : Get(rawRules, e) = 0

(* C10: when exactly one department has a positive raw score, it has the    *)
(* normalized score 1.0, it is the one predicted department, and every      *)
(* other department is at 0.                                                *)
C10_OnlySignalIsPredicted ==
    \A d \in Departments :
        (ClassifyOver /\ OnlySignal(d)) =>
            /\ kpc = "returned"
            /\ normalized[d] = 100
            /\ predicted = <<d>>
            /\ \A e \in Departments \ {d} :
                  /\ Get(raw, e) = 0
                  /\ e \in DOMAIN normalized => normalized[e] = 0

C10_Witness ==
    /\ kpc = "returned"
    /\ OnlySignal("Finance")
    /\ Get(rawRules, "Finance") = Tenths(15)
    /\ predicted = <<"Finance">>

(* a stage of classify_and_summarize_document failed *)
StageFailed == exc # None

Stages ==
    {"download", "classifier construction", "text extraction", "entity extraction", "scoring"}

(* every list of every category of the metadata is empty *)
IsEmptyMetadata(m) ==
    /\ m # None
    /\ \A cat \in DOMAIN ValueOf(m) : \A field \in DOMAIN ValueOf(m)[cat] :
          ValueOf(m)[cat][field] = <<>>

(* C3 as stated: after a failed stage the exception does not reach the      *)
(* caller, and the result has empty metadata, an empty predicted-department *)
(* list, extracted_text_length 0 and a diagnostic in "summary".             *)
C3_FailureYieldsEmptyResult ==
    StageFailed =>
        /\ cpc # "propagated"
        /\ cpc = "returned" =>
              /\ IsEmptyMetadata(ValueOf(classification_results).metadata)
              /\ ValueOf(classification_results).predicted_departments = Some(<<>>)
              /\ ValueOf(classification_results).extracted_text_length = 0
              /\ ValueOf(classification_results).summary
                    = Some(<<"Processing failed: ", ValueOf(exc).class>>)

(* C3 amended: after a failed stage the exception does not reach the        *)
(* caller, and the result has None as metadata and None as predicted        *)
(* departments, extracted_text_length 0 and a diagnostic in "summary".      *)
C3_FailureYieldsNoneResult ==
    StageFailed =>
        /\ ValueOf(exc).stage \in Stages
        /\ cpc # "propagated"
        /\ cpc = "returned" =>
              /\ ValueOf(classification_results).metadata = None
              /\ ValueOf(classification_results).predicted_departments = None
              /\ ValueOf(classification_results).extracted_text_length = 0
              /\ ValueOf(classification_results).summary
                    = Some(<<"Processing failed: ", ValueOf(exc).class>>)

C3_Witness ==
    /\ cpc = "returned"
    /\ StageFailed
    /\ ValueOf(exc).stage = "entity extraction"
    /\ ValueOf(classification_results).metadata = None

(* C4: the file is in the bucket before the classification runs, and an     *)
(* upload whose file processing and storage upload succeeded tries the      *)
(* insert into documents, whether the classification succeeded or failed.   *)
C4_ClassificationNeverBlocksStorage ==
    /\ cpc # "idle" => storage_name \in bucket
    /\ (upc = "done" /\ storage_name \in bucket) => insert_attempts >= 1

C4_Witness ==
    /\ upc = "done"
    /\ StageFailed
    /\ storage_name \in bucket
    /\ doc_id # None
    /\ documents # {}

(* C5: a document whose text is empty or whitespace-only is classified      *)
(* without an exception, with no predicted department and with a metadata   *)
(* mapping whose lists are all empty.                                       *)
C5_BlankTextClassifiesEmpty ==
    (cpc # "idle" /\ IsBlank(pdf.pages) /\ ClassifyOver) =>
        /\ kpc = "returned"
        /\ predicted = <<>>
        /\ metadata = EmptyMetadata

(* the departments that can dominate, and those that are at or above 3.0   *)
(* when the dominance pass starts                                          *)
DominantCandidates == {"Procurement", "Finance", "Legal"}

DominantAtStart == {d \in DominantCandidates : Get(rawRules, d) >= DominanceThreshold}

RECURSIVE Pow(_, _)
Pow(b, n) == IF n = 0 THEN 1 ELSE b * Pow(b, n - 1)

(* the dominance pass is over *)
DominanceOver == kpc \in {"dominated", "returned", "ZeroDivisionError"}

(* C16: of Procurement, Finance and Legal, every department that is at or   *)
(* above 3.0 when the pass starts ends it with its score plus 3.0, once;    *)
(* every department below 3.0 ends it with its score times 0.35 for each    *)
(* dominant department (0.35 x 0.35 with two, 0.35^3 with three); a         *)
(* department at or above 3.0 that cannot dominate keeps its score.         *)
C16_SuppressionCompounds ==
    DominanceOver =>
        LET n == Cardinality(DominantAtStart)
        IN  \A d \in Departments :
               /\ d \in DominantAtStart => Get(raw, d) = Get(rawRules, d) + StrongFlagBonus
               /\ Get(rawRules, d) < DominanceThreshold =>
                     Pow(20, n) * Get(raw, d) = Pow(7, n) * Get(rawRules, d)
               /\ (d \notin DominantCandidates /\ Get(rawRules, d) >= DominanceThreshold) =>
                     Get(raw, d) = Get(rawRules, d)

C16_Witness ==
    /\ kpc = "dominated"
    /\ DominantAtStart = DominantCandidates
    /\ Get(rawRules, "HR") = Tenths(10)
    /\ 8000 * Get(raw, "HR") = 343 * Tenths(10)

(* the procurement phrases that occur in the text *)
ProcurementPhrasesInText == {k \in Range(procurement_phrases) : InText(k, full_text)}

(* Scenario A as written: one tender-id match and no other procurement      *)
(* pattern match, a text with "notice inviting tender" and "bidder" and no  *)
(* other procurement phrase but those inside these two                      *)
ScenarioAWritten ==
    /\ Len(metadata["Procurement"]["TENDER_ID"]) = 1
    /\ Len(metadata["Procurement"]["PURCHASE_ORDER_NO"]) = 0
    /\ Len(metadata["Procurement"]["CONTRACT_ID"]) = 0
    /\ {"notice inviting tender", "bidder"} \subseteq ProcurementPhrasesInText
    /\ ProcurementPhrasesInText \subseteq {"notice inviting tender", "bidder", "bid"}

(* the rules have been applied *)
RulesApplied == kpc # "idle" /\ kpc # "called"

(* C17 as stated: in Scenario A the keyword rule counts 2 hits and          *)
(* Procurement is 3.0 + 3.0 + 1.2 x 2 = 8.4 before the dominance pass.      *)
C17_ScenarioATwoHits ==
    (RulesApplied /\ ScenarioAWritten) =>
        /\ Cardinality(ProcurementPhrasesInText) = 2
        /\ Get(rawRules, "Procurement") = Tenths(84)

(* C17 amended: in Scenario A the keyword rule counts 3 hits, "notice       *)
(* inviting tender", "bidder" and the "bid" inside "bidder", and            *)
(* Procurement is 3.0 + 3.0 + 1.2 x 3 = 9.6 before the dominance pass.      *)
C17_ScenarioAThreeHits ==
    (RulesApplied /\ ScenarioAWritten) =>
        /\ ProcurementPhrasesInText = {"notice inviting tender", "bidder", "bid"}
        /\ Get(rawRules, "Procurement") = Tenths(30) + Tenths(30) + 3 * Tenths(12)
        /\ Get(rawRules, "Procurement") = Tenths(96)

C17_Witness ==
    /\ kpc = "scored"
    /\ ScenarioAWritten
    /\ full_text = {"Notice Inviting Tender", "bidder"}
    /\ Get(rawRules, "Procurement") = Tenths(96)

(* the three parts of Procurement's score *)
ProcurementPatternMatches ==
    Len(metadata["Procurement"]["TENDER_ID"])
    + Len(metadata["Procurement"]["PURCHASE_ORDER_NO"])
    + Len(metadata["Procurement"]["CONTRACT_ID"])

ProcurementKeywordPart == Tenths(12) * Cardinality(ProcurementPhrasesInText)

ProcurementStrongPart ==
    IF \E k \in Range(strong_proc_phrases) : InText(k, full_text) THEN Tenths(30) ELSE 0

(* Procurement is 3.0 per pattern match, plus 1.2 per phrase of the list    *)
(* that occurs, each phrase once, plus a flat 3.0 for a strong phrase       *)
ProcurementScoreParts ==
    Get(rawRules, "Procurement")
        = Tenths(30) * ProcurementPatternMatches + ProcurementKeywordPart + ProcurementStrongPart

(* C18 as stated: the list has 14 phrases and the keyword part never        *)
(* exceeds 1.2 x 14 = 16.8.                                                 *)
C18_FourteenPhrases ==
    RulesApplied =>
        /\ ProcurementScoreParts
        /\ Cardinality(Range(procurement_phrases)) = 14
        /\ ProcurementKeywordPart <= Tenths(168)

(* C18 amended: the list has 15 phrases and the keyword part never exceeds  *)
(* 1.2 x 15 = 18.0; the other parts are as stated.                          *)
C18_FifteenPhrases ==
    RulesApplied =>
        /\ ProcurementScoreParts
        /\ Len(procurement_phrases) = 15
        /\ Cardinality(Range(procurement_phrases)) = 15
        /\ ProcurementKeywordPart <= Tenths(180)

C18_Witness ==
    /\ kpc = "scored"
    /\ full_text = {TenderNotice, "bidder"}
    /\ ProcurementPatternMatches = 2
    /\ ProcurementKeywordPart = Tenths(180)
    /\ Get(rawRules, "Procurement") = Tenths(60) + Tenths(180) + Tenths(30)

(* the keys of a score dict *)
KeysOf(r) == Range(r.keys)

(* C19 as stated: for every input the score map has, after normalization,   *)
(* an entry for each of the six departments, 0.0 for one no rule touched.   *)
C19_EntryPerDepartment ==
    ClassifyOver =>
        /\ kpc = "returned"
        /\ DOMAIN normalized = Departments
        /\ \A d \in Departments : Get(rawRules, d) = 0 => normalized[d] = 0

(* C19 amended: raw always has entries for Procurement, Finance and Legal,  *)
(* which the dominance pass reads; it has an entry for HR, Regulatory or    *)
(* Engineering exactly when a rule added to it or a dominant department's   *)
(* suppression loop read it; when the call returns, normalized has the keys *)
(* of raw, with 0.0 for a department no rule touched.                       *)
C19_EntriesOfTouchedDepartments ==
    ClassifyOver =>
        /\ DominantCandidates \subseteq KeysOf(raw)
        /\ \A d \in Departments \ DominantCandidates :
              d \in KeysOf(raw) <=> (Get(rawRules, d) > 0 \/ DominantAtStart # {})
        /\ kpc = "returned" =>
              /\ DOMAIN normalized = KeysOf(raw)
              /\ \A d \in DOMAIN normalized : Get(rawRules, d) = 0 => normalized[d] = 0

C19_Witness ==
    /\ kpc = "returned"
    /\ DOMAIN normalized = DominantCandidates
    /\ normalized["Finance"] = 100
    /\ normalized["Procurement"] = 0

(* C20: the returned list holds exactly the departments whose normalized    *)
(* score is at least 0.5, a department at exactly half of the maximum       *)
(* among them, none twice and none outside the catalog.                     *)
C20_PredictedIsThresholdSet ==
    kpc = "returned" =>
        /\ Range(predicted) = {d \in DOMAIN normalized : normalized[d] >= PredictionThreshold}
        /\ \A i, j \in 1..Len(predicted) : predicted[i] = predicted[j] => i = j
        /\ Range(predicted) \subseteq Departments
        /\ \A d \in DOMAIN raw.val :
              (\E e \in DOMAIN raw.val : IsMaxRaw(e) /\ 2 * raw.val[d] = raw.val[e]) =>
                  d \in Range(predicted)

C20_Witness ==
    /\ kpc = "returned"
    /\ IsMaxRaw("Legal")
    /\ 2 * Get(raw, "HR") = Get(raw, "Legal")
    /\ normalized["HR"] = PredictionThreshold
    /\ predicted = <<"HR", "Legal">>

(***************************************************************************)
(* Properties of the middleware                                            *)
(***************************************************************************)

(* the request carries tok: as the Bearer token of the Authorization       *)
(* header, or as the auth_token cookie of a request without that header    *)
Carries(tok) ==
    \/ auth_header = Some(Spell["Bearer "] \o tok)
    \/ auth_header = None /\ auth_cookie = Some(tok)

(* the route has answered *)
Answered == apc = "done"

(* the route answered status with the error message *)
AnsweredError(status, message) ==
    /\ auth_response # None
    /\ ValueOf(auth_response).status = status
    /\ ValueOf(auth_response).error = Some(message)

(* C11: a jwt_required route that receives a token issued under the        *)
(* application's JWT_SECRET_KEY and not yet expired calls the handler,     *)
(* answers 200 with the handler's response, and request.current_user is    *)
(* the payload with the user_id, email, name and role, exp and iat of the  *)
(* issue.                                                                  *)
C11_ValidTokenRunsHandler ==
    \A u \in Users : \A t \in 0..MaxIssue :
        (/\ decorator = "jwt_required"
         /\ Answered
         /\ Carries(generate_jwt_token(u, t))
         /\ utcnow < t + TokenLifetime) =>
            /\ handler_calls = 1
            /\ ValueOf(auth_response).status = 200
            /\ ValueOf(auth_response).user = Some(TokenPayload(u, t))
            /\ current_user = Some(TokenPayload(u, t))
            /\ ValueOf(current_user).user_id = u.id
            /\ ValueOf(current_user).email = u.email
            /\ ValueOf(current_user).name = u.name
            /\ ValueOf(current_user).role = u.role

C11_Witness ==
    /\ decorator = "jwt_required"
    /\ Answered
    /\ \E u \in Users :
          /\ auth_header = Some(Spell["Bearer "] \o generate_jwt_token(u, MaxIssue))
          /\ current_user = Some(TokenPayload(u, MaxIssue))
    /\ utcnow = MaxIssue + TokenLifetime - 1
    /\ handler_calls = 1

(* tok is expired at the time of the request: it was issued here and the   *)
(* time is at or past its exp                                              *)
ExpiredNow(tok) ==
    \E u \in Users : \E t \in 0..MaxIssue :
        tok = generate_jwt_token(u, t) /\ t + TokenLifetime <= utcnow

(* C12: a jwt_required route that is sent an invalid (malformed or wrongly *)
(* signed) or expired token answers 401 "Invalid or expired token", never  *)
(* calls the handler and never sets request.current_user.                  *)
C12_BadTokenIsRejected ==
    \A tok \in Tokens :
        (/\ decorator = "jwt_required"
         /\ Carries(tok)
         /\ tok \in ForeignTokens \/ ExpiredNow(tok)) =>
            /\ handler_calls = 0
            /\ current_user = None
            /\ Answered => AnsweredError(401, "Invalid or expired token")

C12_Witness ==
    /\ decorator = "jwt_required"
    /\ Answered
    /\ \E u \in Users :
          /\ auth_header = Some(Spell["Bearer "] \o generate_jwt_token(u, 0))
          /\ auth_cookie = Some(generate_jwt_token(u, MaxIssue))
    /\ utcnow = TokenLifetime
    /\ AnsweredError(401, "Invalid or expired token")

(* C13: a jwt_required route that is sent no Authorization header and no   *)
(* auth cookie answers 401 with the error "Authorization header is         *)
(* missing" and does not call the handler.                                 *)
C13_MissingHeaderMessage ==
    (/\ decorator = "jwt_required"
     /\ Answered
     /\ auth_header = None
     /\ auth_cookie = None) =>
        /\ AnsweredError(401, "Authorization header is missing")
        /\ handler_calls = 0

(* the Authorization header is there and is not "Bearer <token>" *)
MalformedHeader ==
    /\ auth_header # None
    /\ \/ auth_header = Some(Spell["Bearer"])
       \/ \E tok \in Tokens :
             \/ auth_header = Some(Spell["InvalidFormat "] \o tok)
             \/ auth_header = Some(Spell["bearer "] \o tok)

(* C14: a jwt_required route that is sent an Authorization header that is  *)
(* not of the form "Bearer <token>" answers 401 with an error message that *)
(* contains "Invalid authorization header format" and does not call the    *)
(* handler.                                                                *)
C14_MalformedHeaderMessage ==
    (/\ decorator = "jwt_required"
     /\ Answered
     /\ MalformedHeader) =>
        /\ auth_response # None
        /\ ValueOf(auth_response).status = 401
        /\ ValueOf(auth_response).error # None
        /\ IsSubstring(Spell["Invalid authorization header format"],
                       Spell[ValueOf(ValueOf(auth_response).error)])
        /\ handler_calls = 0

(* the token the request presents: the Bearer token of the header, else    *)
(* the auth_token cookie                                                   *)
PresentedToken ==
    IF Truthy(BearerToken(auth_header)) THEN BearerToken(auth_header) ELSE auth_cookie

(* the presented token was issued to u at t and is not expired *)
PresentsValid(u, t) ==
    /\ PresentedToken = Some(generate_jwt_token(u, t))
    /\ utcnow < t + TokenLifetime

(* C15: a jwt_optional route blocks no request: whatever the Authorization *)
(* header, the handler is called exactly once and the route answers 200;   *)
(* request.current_user is set exactly when the presented token verifies,  *)
(* and is then its payload; otherwise the handler runs as anonymous.       *)
C15_OptionalNeverBlocks ==
    decorator = "jwt_optional" =>
        /\ handler_calls <= 1
        /\ Answered =>
              /\ handler_calls = 1
              /\ ValueOf(auth_response).status = 200
              /\ current_user # None <=> \E u \in Users : \E t \in 0..MaxIssue : PresentsValid(u, t)
              /\ \A u \in Users : \A t \in 0..MaxIssue :
                    PresentsValid(u, t) => current_user = Some(TokenPayload(u, t))
              /\ ValueOf(auth_response).authenticated <=> current_user # None

C15_Witness ==
    /\ decorator = "jwt_optional"
    /\ Answered
    /\ auth_header = Some(Spell["InvalidFormat "] \o Spell["token123"])
    /\ \E u \in Users : auth_cookie = Some(generate_jwt_token(u, 0))
    /\ current_user # None
    /\ handler_calls = 1

(***************************************************************************)
(* Properties of the Finance rules, the returned list and the dominance    *)
(* pass                                                                    *)
(***************************************************************************)
(* the five Finance rules of lines 341-354: the terms and the weight *)
FinanceRules ==
    << [terms |-> tax_terms, weight |-> Tenths(30)],
       [terms |-> financial_statement_terms, weight |-> Tenths(20)],
       [terms |-> invoice_terms, weight |-> Tenths(15)],
       [terms |-> pnl_terms, weight |-> Tenths(20)],
       [terms |-> budget_terms, weight |-> Tenths(15)] >>

(* the weight a Finance rule contributes: all of it when one of its terms  *)
(* is in the text, nothing otherwise                                       *)
FinanceContribution(i) ==
    IF AnyInText(FinanceRules[i].terms, full_text)
    THEN FinanceRules[i].weight
    ELSE 0

(* C21: each of the five Finance rules adds its weight (3.0, 2.0, 1.5, 2.0, *)
(* 1.5) at most once, when any of its terms is in the text and however     *)
(* many of them are, so the Finance score before the dominance pass is the *)
(* sum of the weights of the rules that are present and at most 10.0.      *)
C21_FinancePresenceOnly ==
    RulesApplied =>
        /\ Get(rawRules, "Finance") = SumOver([i \in 1..5 |-> FinanceContribution(i)], 1..5)
        /\ Get(rawRules, "Finance") <= Tenths(100)
        /\ HasKey(rawRules, "Finance") <=> \E i \in 1..5 : FinanceContribution(i) > 0

C21_Witness ==
    /\ RulesApplied
    /\ full_text = {FinanceStatement}
    /\ \A i \in 1..5 : FinanceContribution(i) = FinanceRules[i].weight
    /\ Get(rawRules, "Finance") = Tenths(100)

(* C24: whenever some rule fired, classify_department returns a list that  *)
(* is not empty and holds every department whose final raw score is the    *)
(* maximum, all of them when several tie for it.                           *)
C24_MaximumIsPredicted ==
    (ClassifyOver /\ RuleFired) =>
        /\ kpc = "returned"
        /\ predicted # <<>>
        /\ \A d \in DOMAIN raw.val : IsMaxRaw(d) => d \in Range(predicted)

C24_Witness ==
    /\ kpc = "returned"
    /\ RuleFired
    /\ IsMaxRaw("Legal") /\ IsMaxRaw("Finance")
    /\ Get(raw, "Legal") = Tenths(60)
    /\ predicted = <<"Legal", "Finance">>

(* a block of the dominance pass is about to run *)
InDominancePass == kpc \in {"scored", "procurement_pass_done", "finance_pass_done"}

(* the department whose block runs next: the only one that block can boost *)
BlockDepartment ==
    IF kpc = "scored" THEN "Procurement"
    ELSE IF kpc = "procurement_pass_done" THEN "Finance"
    ELSE "Legal"

(* C25: a department that is at or above 3.0 when a block of the dominance *)
(* pass runs is left unchanged by that block's suppression loop, so it is  *)
(* still at or above 3.0 for every later block and never decreases: a      *)
(* department that got the +3.0 bonus is never suppressed.  HR, Regulatory *)
(* and Engineering at or above 3.0 keep their score through every block,   *)
(* get no bonus, and a block changes a score only when its own department  *)
(* (Procurement, Finance or Legal) is at or above 3.0.                     *)
C25_StrongNeverSuppressed ==
    [][InDominancePass =>
          /\ \A d \in Departments :
                Get(raw, d) >= DominanceThreshold =>
                    Get(raw', d) = IF d = BlockDepartment
                                   THEN Get(raw, d) + StrongFlagBonus
                                   ELSE Get(raw, d)
          /\ Get(raw, BlockDepartment) < DominanceThreshold =>
                \A d \in Departments : Get(raw', d) = Get(raw, d)
          /\ \A d \in Departments :
                Get(raw', d) > Get(raw, d) =>
                    d = BlockDepartment /\ Get(raw, d) >= DominanceThreshold]_vars

C25_Witness ==
    /\ kpc = "dominated"
    /\ Get(rawRules, "HR") = Tenths(30)
    /\ Get(raw, "HR") = Tenths(30)
    /\ Get(rawRules, "Procurement") = Tenths(30)
    /\ Get(raw, "Procurement") = Tenths(60)
    /\ Get(rawRules, "Finance") = Tenths(15)
    /\ Get(raw, "Finance") = Suppress(Tenths(15))

(* the exact quotient raw[d] / max_raw is at least 0.495 and below 0.5 *)
JustBelowHalf(d) ==
    \E e \in DOMAIN raw.val :
        /\ IsMaxRaw(e)
        /\ 200 * raw.val[d] >= 99 * raw.val[e]
        /\ 2 * raw.val[d] < raw.val[e]

(* the exact quotient raw[d] / max_raw is 0.495 *)
ExactlyBelowHalf(d) ==
    \E e \in DOMAIN raw.val : IsMaxRaw(e) /\ 200 * raw.val[d] = 99 * raw.val[e]

(* C30 as stated: a department is returned exactly when its rounded score  *)
(* is at least 0.50, and every exact quotient in [0.495, 0.5), 0.495        *)
(* included, rounds to 0.50 and is returned.                               *)
C30_ClosedInterval ==
    kpc = "returned" =>
        \A d \in DOMAIN raw.val :
            /\ d \in Range(predicted) <=> normalized[d] >= PredictionThreshold
            /\ JustBelowHalf(d) => (normalized[d] = PredictionThreshold /\ d \in Range(predicted))

(* C30: the 0.5 threshold is applied to the score rounded to two decimals: *)
(* a department is returned exactly when its rounded score is at least     *)
(* 0.50.  An exact quotient above 0.495 and below 0.5, as HR at 10.0       *)
(* against a boosted Legal at 20.2, rounds to 0.50 and is returned; a      *)
(* quotient of exactly 0.495 rounds to 0.49 or to 0.50 as the float        *)
(* quotient falls, and a quotient below 0.495 is never returned.           *)
C30_ThresholdOnRoundedScore ==
    kpc = "returned" =>
        \A d \in DOMAIN raw.val :
            /\ d \in Range(predicted) <=> normalized[d] >= PredictionThreshold
            /\ (JustBelowHalf(d) /\ ~ExactlyBelowHalf(d)) =>
                  (normalized[d] = PredictionThreshold /\ d \in Range(predicted))
            /\ ExactlyBelowHalf(d) =>
                  normalized[d] \in {PredictionThreshold - 1, PredictionThreshold}
            /\ d \in Range(predicted) => JustBelowHalf(d) \/ \E e \in DOMAIN raw.val :
                                                              IsMaxRaw(e) /\ 2 * raw.val[d] >= raw.val[e]

C30_Witness ==
    /\ kpc = "returned"
    /\ Get(raw, "HR") = Tenths(100)
    /\ Get(raw, "Legal") = Tenths(202)
    /\ JustBelowHalf("HR") /\ ~ExactlyBelowHalf("HR")
    /\ normalized["HR"] = PredictionThreshold
    /\ predicted = <<"HR", "Legal">>

(***************************************************************************)
(* Properties of the summary, of repeated classifications and of the       *)
(* upload's writes                                                         *)
(***************************************************************************)
(* a summary that is a string with at least one character *)
IsNonEmptyString(s) == s # None /\ ValueOf(s) # <<>>

(* C23: the summary classify_and_summarize_document returns is never None, *)
(* on the error path as well, so the summary_text upload_document writes   *)
(* to document_summaries is always a non-empty string.                     *)
C23_SummaryNeverNone ==
    /\ cpc = "returned" => IsNonEmptyString(summary)
    /\ \A row \in document_summaries : IsNonEmptyString(row.summary_text)

(* C22 as stated: over any sequence of classifications in one process the  *)
(* extractor model is loaded at most once, and every call uses that one    *)
(* loaded instance.                                                        *)
C22_LoadedAtMostOnce ==
    /\ classifier_loads <= 1
    /\ classifier \in {None, Some(1)}

(* C22: the extractor model is not shared between calls.  Every call of    *)
(* classify_and_summarize_document that gets through line 104 constructs   *)
(* its own DocumentClassifier, whose constructor loads the model: the      *)
(* number of loads grows by one with each such call, the call works with   *)
(* the instance it has just loaded, and nothing else loads the model.      *)
C22_LoadedOncePerCall ==
    /\ [](classifier # None => classifier = Some(classifier_loads))
    /\ [][/\ (cpc = "construct" /\ cpc' = "extract_text") =>
                (classifier_loads' = classifier_loads + 1 /\ classifier' = Some(classifier_loads'))
          /\ classifier_loads' # classifier_loads => cpc = "construct"]_vars

C22_Witness ==
    /\ cpc = "returned"
    /\ classifier_loads = 2
    /\ classifier = Some(2)
    /\ classification_results # None
    /\ "error" \notin DOMAIN ValueOf(classification_results)

(***************************************************************************)
(* Properties of the token's source and of a session                       *)
(***************************************************************************)
(* tok was issued here and has not expired *)
ValidNow(tok) ==
    \E u \in Users : \E t \in 0..MaxIssue :
        tok = generate_jwt_token(u, t) /\ t <= utcnow /\ utcnow < t + TokenLifetime

(* the Authorization header holds a non-empty Bearer token *)
HeaderYieldsToken == Truthy(BearerToken(auth_header))

(* C26: jwt_required and jwt_optional take a non-empty Bearer token of the *)
(* Authorization header before the auth_token cookie and read the cookie   *)
(* only when the header yields no token.  With an invalid header token and *)
(* a valid cookie jwt_required answers 401 and jwt_optional runs the       *)
(* handler anonymously; with a missing or non-Bearer header and a valid    *)
(* cookie the request is authenticated as the cookie's user.               *)
C26_HeaderBeforeCookie ==
    /\ apc \in {"token", "handler", "done"} =>
          token = IF HeaderYieldsToken THEN BearerToken(auth_header) ELSE auth_cookie
    /\ (Answered /\ auth_cookie # None /\ ValidNow(ValueOf(auth_cookie))) =>
          IF HeaderYieldsToken /\ ~ValidNow(ValueOf(BearerToken(auth_header)))
          THEN /\ current_user = None
               /\ IF decorator = "jwt_required"
                  THEN AnsweredError(401, "Invalid or expired token") /\ handler_calls = 0
                  ELSE /\ handler_calls = 1
                       /\ ValueOf(auth_response).status = 200
                       /\ ~ValueOf(auth_response).authenticated
          ELSE ~HeaderYieldsToken =>
                  /\ handler_calls = 1
                  /\ ValueOf(auth_response).status = 200
                  /\ current_user # None
                  /\ current_user = verify_jwt_token(ValueOf(auth_cookie), utcnow)
                  /\ ValueOf(auth_response).user = current_user

C26_Witness ==
    /\ Answered
    /\ decorator = "jwt_required"
    /\ auth_header = Some(Spell["Bearer "] \o Spell["invalid.jwt.token"])
    /\ auth_cookie # None /\ ValidNow(ValueOf(auth_cookie))
    /\ AnsweredError(401, "Invalid or expired token")
    /\ handler_calls = 0

(* the session's token was issued to u at hour t *)
SessionTokenOf(u, t) == session_token = Some(generate_jwt_token(u, t))

(* C27: logout revokes nothing.  In a sequence login, logout, request, the *)
(* token login issued, sent in the Authorization header or as a cookie the *)
(* client kept, is accepted by jwt_required at every hour before its       *)
(* expiry 24 hours after issue and refused at every hour after it; the     *)
(* logout itself changes only the client's auth_token cookie.              *)
C27_LogoutDoesNotRevoke ==
    /\ [](\A u \in Users : \A t \in 0..MaxIssue :
            (/\ Answered
             /\ spc = "logged_out"
             /\ decorator = "jwt_required"
             /\ SessionTokenOf(u, t)
             /\ PresentedToken = session_token) =>
                /\ utcnow < t + TokenLifetime =>
                      /\ handler_calls = 1
                      /\ ValueOf(auth_response).status = 200
                      /\ current_user = Some(TokenPayload(u, t))
                /\ utcnow > t + TokenLifetime =>
                      /\ AnsweredError(401, "Invalid or expired token")
                      /\ handler_calls = 0)
    /\ [][(spc = "logged_in" /\ spc' = "logged_out") =>
              /\ cookie_jar' = Some(<<>>)
              /\ UNCHANGED <<session_token, authVars, classifierVars, orchestratorVars,
                             uploadVars, concurrentVars>>]_vars

C27_Witness ==
    /\ Answered
    /\ spc = "logged_out"
    /\ decorator = "jwt_required"
    /\ cookie_jar = Some(<<>>)
    /\ auth_cookie = None
    /\ \E u \in Users : \E t \in 0..MaxIssue :
          /\ SessionTokenOf(u, t)
          /\ auth_header = Some(Spell["Bearer "] \o generate_jwt_token(u, t))
          /\ utcnow = t + TokenLifetime - 1
    /\ handler_calls = 1
    /\ ValueOf(auth_response).status = 200

(***************************************************************************)
(* Properties of the inserts into documents and of what an upload leaves   *)
(***************************************************************************)
(* the upload has inserted its row or answered an error *)
UploadOver(p) == uploads[p].pc \in {"inserted", "done"}

(* C28: an upload whose first insert fails only because of the uniqueness  *)
(* of content_hash is retried exactly once, with the hash suffixed by the  *)
(* current second, and ends with its row inserted, however concurrent      *)
(* uploads of the same content interleave, two retries within one second   *)
(* included.                                                               *)
C28_DuplicateRetryInserts ==
    \A p \in DOMAIN uploads :
        (/\ UploadOver(p)
         /\ uploads[p].first_error = "duplicate"
         /\ uploads[p].retry_error # "other") =>
            /\ uploads[p].insert_attempts = 2
            /\ uploads[p].pc = "inserted"
            /\ uploads[p].content_hash \in {Some(suffixed_content_hash(pdf, t)) : t \in 0..MaxNow}
            /\ ValueOf(uploads[p].content_hash) \in documents

(* upload_document answered status with this body *)
Responded(status, body) ==
    /\ upc = "done"
    /\ response = Some([status |-> status, body |-> body])

(* the insert into documents failed, at the first try or at the retry *)
InsertFailed ==
    \/ Responded(500, "Database insert failed")
    \/ Responded(500, "Database insert failed after retry")
    \/ Responded(500, "Retry database insert failed")

(* the linking ended the request with its warning or its error *)
LinkingFailed ==
    \/ Responded(200, "User not mapped to any department")
    \/ Responded(500, "Failed linking document to departments")

(* the row this upload inserted is in documents *)
RowStored ==
    /\ doc_id # None
    /\ IF unique_content_hash = None
       THEN calculate_file_hash(pdf) \in documents
       ELSE ValueOf(unique_content_hash) \in documents

(* C29: upload_document rolls nothing back.  No step removes an object of  *)
(* the bucket or a row of documents, document_summaries or                 *)
(* document_departments.  When the insert into documents fails after the   *)
(* storage upload, the object stays in the bucket and the upload has no    *)
(* row; when the linking returns its warning or its error after the row    *)
(* was inserted, the endpoint answers 200 or 500 with it instead of 201,   *)
(* and the stored file, the row and the summary row stay.                  *)
C29_NoRollback ==
    /\ [](InsertFailed => (storage_name \in bucket /\ doc_id = None /\ document_summaries = {}))
    /\ [](LinkingFailed => (storage_name \in bucket /\ RowStored))
    /\ [](Responded(201, "Document uploaded and processed successfully") =>
             (RowStored /\ ValueOf(doc_id) \in document_departments))
    /\ [][/\ bucket \subseteq bucket'
          /\ documents \subseteq documents'
          /\ document_summaries \subseteq document_summaries'
          /\ document_departments \subseteq document_departments']_vars

C29_Witness ==
    /\ Responded(200, "User not mapped to any department")
    /\ storage_name \in bucket
    /\ RowStored
    /\ document_summaries # {}
    /\ document_departments = {}
====
